---- MODULE Spec2Model ----
(***************************************************************************)
(* State-machine model of the MIDI tracker (src/main.py,                   *)
(* src/database_manager.py, src/energy_calculator.py).                     *)
(*                                                                         *)
(* Time is the wall clock time.time() in whole seconds; None is written 0  *)
(* (the code only ever tests these fields for truthiness, and the clock is *)
(* never 0).  Durations are kept in milliseconds as the code keeps them.   *)
(* Energy is kept exactly, in units of 1/127 microjoule.                   *)
(* The durable store is modelled at its boundary: an additive upsert that  *)
(* either commits as a whole or fails leaving the row untouched.           *)
(***************************************************************************)
EXTENDS Integers, Sequences, FiniteSets, TLC

VARIABLES
    now,                    \* time.time(), seconds
    last_activity_time,     \* self.last_activity_time (0 = None)
    session_timer_start,    \* self.session_timer_start (0 = None)
    session_timer_total,    \* self.session_timer_total
    session_is_active,      \* self.session_is_active
    daily_stats,            \* self.daily_stats
    last_saved_daily_stats, \* self.last_saved_daily_stats
    hourly_stats,           \* self.hourly_stats: hour -> bucket
    active_notes,           \* self.active_notes: note -> NoteState
    sustained_notes,        \* self.sustained_notes
    pedal_pressed,          \* self.pedal_pressed
    db_queue,               \* self.db_queue, operations not yet applied
    last_save_time,         \* self.last_save_time
    db_daily_stats,         \* table daily_stats: date -> row
    db_hourly_stats,        \* table hourly_stats: <<date, hour>> -> row
    db_note_distribution,   \* table note_distribution: <<date, note>> -> row
    delta_daily_stats,      \* delta computed by the most recent flush
    flush_status,           \* how the most recent flush ended
    attempt_log,            \* results of the write attempts of that flush
    flush_pc,               \* position of the GUI thread inside a flush
                            \* or a session tick in progress
    flush_session_time,     \* current_session_time local of that flush
    enqueued,               \* history: every operation ever put on db_queue
    quiet,                  \* history: no message since the last flush
    n_msgs,                 \* messages ingested and commands run so far
    n_adv,                  \* clock advances so far
    led_controller,         \* self.led_controller, the LEDController object
    led_hist,               \* history: the last call made directly on the
                            \* controller's interface, <<name, arguments>>,
                            \* and the notes that were active before it
    led_threads             \* the controller's lock, the animation loops and
                            \* the position of each thread inside a call

vars == <<now, last_activity_time, session_timer_start, session_timer_total,
          session_is_active, daily_stats, last_saved_daily_stats, hourly_stats,
          active_notes, sustained_notes, pedal_pressed, db_queue,
          last_save_time, db_daily_stats, db_hourly_stats,
          db_note_distribution, delta_daily_stats, flush_status, attempt_log,
          flush_pc, flush_session_time, enqueued, quiet, n_msgs,
          n_adv, led_controller, led_hist, led_threads>>

\* Everything but the LED controller.
main_vars == <<now, last_activity_time, session_timer_start,
               session_timer_total, session_is_active, daily_stats,
               last_saved_daily_stats, hourly_stats, active_notes,
               sustained_notes, pedal_pressed, db_queue, last_save_time,
               db_daily_stats, db_hourly_stats, db_note_distribution,
               delta_daily_stats, flush_status, attempt_log, flush_pc,
               flush_session_time, enqueued, quiet, n_msgs, n_adv>>

\* What the model keeps about the calls on the LED controller.
led_aux == <<led_hist, led_threads>>

session_vars == <<last_activity_time, session_timer_start,
                  session_timer_total, session_is_active>>
agg_vars == <<daily_stats, hourly_stats, active_notes, sustained_notes,
              pedal_pressed>>
db_vars == <<db_daily_stats, db_hourly_stats, db_note_distribution>>
flush_vars == <<last_saved_daily_stats, delta_daily_stats, flush_status,
                attempt_log, flush_pc, flush_session_time, quiet,
                last_save_time>>

----------------------------------------------------------------------------
\* Bounds of the model.
MaxMsgs == 3
MaxAdvances == 2
\* Animation loops alive at once.
MaxLoops == 3
\* Moves of the clock from one timer instant to the next.
MaxJumps == 6

\* Program constants.
session_pause_threshold == 40
save_interval == 20
max_retries == 5
ACTUATION_FORCE == 574
KEY_TRAVEL == 10

\* main.py imports (lines 1-20) do not bind the name sqlite3.
sqlite3_imported == FALSE

\* The clock is observed in steps of one save interval.
Delays == {save_interval}

\* The clock at construction: one second before the hour changes.
StartTime == 3599

\* The messages the driver delivers (midi_data of the callback's tuple).
Msgs == { <<144, 60, 100>>,    \* note on 60, velocity 100
          <<145, 62, 64>>,     \* note on 62, velocity 64, channel 1
          <<128, 60, 0>>,      \* note off 60
          <<176, 64, 127>> }   \* sustain pressed

\* Outcomes of the store for one flush: <<k, r>> = the first k write attempts
\* fail with "database is locked", the next one ends with r.
WriteOutcomes == { <<0, "ok">>, <<0, "error">>, <<1, "ok">>,
                   <<max_retries, "ok">> }

----------------------------------------------------------------------------
\* Data shapes.
ZeroStats == [ total_notes |-> 0, total_duration_ms |-> 0,
               total_velocity |-> 0, total_energy |-> 0, pedal_presses |-> 0,
               note_bytes |-> 0, other_bytes |-> 0,
               session_time_seconds |-> 0 ]

ZeroRow == [ total_notes |-> 0, total_duration_ms |-> 0, total_velocity |-> 0,
             total_energy |-> 0, pedal_presses |-> 0, note_bytes |-> 0,
             other_bytes |-> 0, total_bytes |-> 0,
             session_time_seconds |-> 0 ]

ZeroDist == [ count |-> 0, total_velocity |-> 0, total_energy |-> 0,
              note_bytes |-> 0, total_duration_ms |-> 0 ]

EmptyMap == [ k \in {} |-> 0 ]

date_str(t) == t \div 86400
hour_of(t) == (t \div 3600) % 24

Remove(f, k) == [ x \in (DOMAIN f) \ {k} |-> f[x] ]
Put(f, k, v) == [ x \in (DOMAIN f) \cup {k} |-> IF x = k THEN v ELSE f[x] ]

\* An energy that falls as the velocity grows.
calculate_note_energy_falling(velocity) ==
    ACTUATION_FORCE * KEY_TRAVEL * (254 - velocity)

\* energy_calculator.py: ACTUATION_FORCE * KEY_TRAVEL * (1 + velocity/127),
\* multiplied through by 127 to stay in the integers.
calculate_note_energy(velocity) ==
    ACTUATION_FORCE * KEY_TRAVEL * (127 + velocity)

note_distribution_op(t, note, count, velocity, energy, bytes, duration) ==
    [ type |-> "note_distribution",
      data |-> [ date |-> date_str(t), midi_note |-> note, count |-> count,
                 velocity |-> velocity, energy |-> energy, bytes |-> bytes,
                 duration |-> duration ] ]

update_stats_op(t, hour_key, stats) ==
    [ type |-> "update_stats",
      data |-> [ date |-> date_str(t), hour |-> hour_key, stats |-> stats ] ]

----------------------------------------------------------------------------
\* The LED controller (led_controller.py).  Colours are <<r, g, b>>; a
\* brightness b of the code (0.0 .. 1.0) is the integer 12700 * b, so that
\* 0.3 + (velocity / 127) * 0.7 is the integer 3810 + 70 * velocity.

LED_COUNT == 144
PIANO_LOWEST_NOTE == 21
PIANO_HIGHEST_NOTE == 108
double_led_start_note == 29
double_led_end_note == 100
\* self.sustain_fade_threshold = 0.3, in hundredths.
sustain_fade_threshold == 30
\* self.fade_duration_ms = 1000
fade_duration_ms == 1000
\* self.sparkle_intensity = 0.2, in hundredths.
sparkle_intensity == 20

FullBrightness == 127 * 100
Off == <<0, 0, 0>>
\* self.note_color = (0, 0, 255); self.background_color = None.
DefaultNoteColor == <<0, 0, 255>>
\* None for a colour.
NoColor == << >>

\* LEDController.__init__ with the strip present or absent (line 90-130:
\* the strip is None when the library or the hardware is missing).  pixels
\* holds the channels that are not off.
LEDController(strip) ==
    [ enabled |-> FALSE,
      strip |-> strip,
      pixels |-> EmptyMap,
      active_notes |-> {},
      note_states |-> EmptyMap,
      double_led_mode |-> FALSE,
      note_color |-> DefaultNoteColor,
      background_color |-> NoColor,
      sustain_pedal_hold |-> FALSE,
      sustain_pedal_active |-> FALSE,
      effect_mode |-> "static",
      velocity_brightness |-> FALSE,
      fade_duration_ms |-> fade_duration_ms,
      sustain_fade_threshold |-> sustain_fade_threshold,
      animation_running |-> FALSE,
      status_leds_enabled |-> TRUE ]

\* A mapping whose index grows with the note.
midi_note_to_led_ascending(led, midi_note) ==
    IF led.double_led_mode
    THEN IF midi_note < double_led_start_note
            \/ midi_note > double_led_end_note
         THEN {}
         ELSE LET offset == midi_note - double_led_start_note
              IN  { offset * 2, offset * 2 + 1 }
    ELSE IF midi_note < PIANO_LOWEST_NOTE \/ midi_note > PIANO_HIGHEST_NOTE
         THEN {}
         ELSE { LED_COUNT - 1 - (PIANO_HIGHEST_NOTE - midi_note) }

\* A paired mapping that steps by one channel per note, so that
\* neighbouring notes share a channel.
midi_note_to_led_overlapping(led, midi_note) ==
    IF led.double_led_mode
    THEN IF midi_note < double_led_start_note
            \/ midi_note > double_led_end_note
         THEN {}
         ELSE LET offset == midi_note - double_led_start_note
                  led_index1 == LED_COUNT - 1 - offset
              IN  { led_index1, led_index1 - 1 }
    ELSE IF midi_note < PIANO_LOWEST_NOTE \/ midi_note > PIANO_HIGHEST_NOTE
         THEN {}
         ELSE { LED_COUNT - 1 - (midi_note - PIANO_LOWEST_NOTE) }

\* midi_note_to_led, lines 137-169: the set of channels of a note, empty
\* for None.
midi_note_to_led(led, midi_note) ==
    IF led.double_led_mode
    THEN IF midi_note < double_led_start_note
            \/ midi_note > double_led_end_note
         THEN {}
         ELSE LET offset == midi_note - double_led_start_note
                  led_index1 == LED_COUNT - 1 - (offset * 2)
              IN  { led_index1, led_index1 - 1 }
    ELSE IF midi_note < PIANO_LOWEST_NOTE \/ midi_note > PIANO_HIGHEST_NOTE
         THEN {}
         ELSE { LED_COUNT - 1 - (midi_note - PIANO_LOWEST_NOTE) }

\* Writes that land one strip length further.
SetPixelsBeyondStrip(pixels, channels, color) ==
    [ i \in (DOMAIN pixels) \cup { c + LED_COUNT : c \in channels } |->
        IF i - LED_COUNT \in channels THEN color ELSE pixels[i] ]

\* _set_pixel on every channel of a set, lines 171-179.
SetPixels(pixels, channels, color) ==
    [ i \in IF color = Off THEN (DOMAIN pixels) \ channels
            ELSE (DOMAIN pixels) \cup channels |->
        IF i \in channels THEN color ELSE pixels[i] ]

\* The colour of a channel.
Pixel(led, i) == IF i \in DOMAIN led.pixels THEN led.pixels[i] ELSE Off

\* int(color[k] * brightness) for each component.
Scale(color, brightness) ==
    << (color[1] * brightness) \div FullBrightness,
       (color[2] * brightness) \div FullBrightness,
       (color[3] * brightness) \div FullBrightness >>

\* The background colour, or off when none is configured.
Background(led) ==
    IF led.background_color = NoColor THEN Off ELSE led.background_color

\* brightness_factor / start_brightness, lines 211-215 and 689-691.
VelocityBrightness(led, velocity) ==
    IF led.velocity_brightness THEN 3810 + 70 * velocity
    ELSE FullBrightness

\* note_on that tracks the note before it looks the channel up.
note_on_tracking_unmapped(led, midi_note, velocity, t) ==
    IF ~led.enabled \/ ~led.strip THEN led
    ELSE [ led EXCEPT
             !.note_states =
                 Put(@, midi_note,
                     [ velocity |-> velocity, pressed_time |-> t,
                       released_time |-> 0 ]),
             !.active_notes = @ \cup {midi_note},
             !.pixels =
                 SetPixels(@, midi_note_to_led(led, midi_note),
                           Scale(led.note_color,
                                 VelocityBrightness(led, velocity))) ]

\* note_on, lines 188-231.
note_on(led, midi_note, velocity, t) ==
    IF ~led.enabled \/ ~led.strip THEN led
    ELSE IF midi_note_to_led(led, midi_note) = {} THEN led
    ELSE [ led EXCEPT
             !.note_states =
                 Put(@, midi_note,
                     [ velocity |-> velocity, pressed_time |-> t,
                       released_time |-> 0 ]),
             !.active_notes = @ \cup {midi_note},
             !.pixels =
                 IF led.note_color = NoColor THEN @
                 ELSE SetPixels(@, midi_note_to_led(led, midi_note),
                                Scale(led.note_color,
                                      VelocityBrightness(led, velocity))) ]

\* note_off that leaves the channels, the active set and the tracked
\* state of a mapped note as they are.
note_off_keeping(led, midi_note, t) == led

\* note_off that marks the release and takes the note out of the active set
\* even while the pedal holds it.
note_off_ignoring_pedal(led, midi_note, t) ==
    IF ~led.enabled \/ ~led.strip THEN led
    ELSE IF midi_note_to_led(led, midi_note) = {} THEN led
    ELSE [ led EXCEPT
             !.note_states =
                 IF midi_note \in DOMAIN @
                 THEN [ @ EXCEPT ![midi_note].released_time = t ]
                 ELSE @,
             !.active_notes = @ \ {midi_note} ]

\* note_off, lines 234-279.
note_off(led, midi_note, t) ==
    IF ~led.enabled \/ ~led.strip THEN led
    ELSE IF led.sustain_pedal_hold /\ led.sustain_pedal_active THEN led
    ELSE IF midi_note_to_led(led, midi_note) = {} THEN led
    ELSE LET marked ==
                 IF midi_note \in DOMAIN led.note_states
                 THEN [ led.note_states EXCEPT
                          ![midi_note].released_time = t ]
                 ELSE led.note_states
         IN  IF led.effect_mode = "fade" /\ led.animation_running
             THEN [ led EXCEPT
                      !.note_states = marked,
                      !.active_notes = @ \ {midi_note} ]
             ELSE [ led EXCEPT
                      !.note_states = Remove(marked, midi_note),
                      !.active_notes = @ \ {midi_note},
                      !.pixels =
                          SetPixels(@, midi_note_to_led(led, midi_note),
                                    Background(led)) ]

\* sustain_pedal_on, lines 510-513.
sustain_pedal_on(led) == [ led EXCEPT !.sustain_pedal_active = TRUE ]

\* sustain_pedal_off, lines 515-552: with sustain hold, the notes that are
\* lit and not held are put to the background and dropped from the active
\* set.
sustain_pedal_off(led, currently_held_notes) ==
    LET led1 == [ led EXCEPT !.sustain_pedal_active = FALSE ]
        notes_to_clear == led.active_notes \ currently_held_notes
        channels ==
            UNION { midi_note_to_led(led, n) : n \in notes_to_clear }
    IN  IF led.sustain_pedal_hold /\ led.enabled /\ led.strip
        THEN [ led1 EXCEPT
                 !.active_notes = @ \ notes_to_clear,
                 !.pixels = SetPixels(@, channels, Background(led)) ]
        ELSE led1

\* clear_all, lines 572-581.
clear_all(led) ==
    IF ~led.strip THEN led
    ELSE [ led EXCEPT !.active_notes = {}, !.pixels = EmptyMap ]

\* update_status_leds, lines 281-294.
update_status_leds(led) ==
    IF ~led.strip THEN led
    ELSE [ led EXCEPT
             !.pixels = SetPixels(@, 0 .. 4,
                                  IF led.status_leds_enabled
                                  THEN <<0, 50, 0>> ELSE Off) ]

\* enable that does not look for the strip.
enable_without_strip(led) ==
    update_status_leds(clear_all([ led EXCEPT !.enabled = TRUE ]))

\* enable, lines 554-564.
enable(led) ==
    IF ~led.strip THEN led
    ELSE update_status_leds(clear_all([ led EXCEPT !.enabled = TRUE ]))

\* set_color_preset, lines 367-414: the note colour, the background colour
\* and the sustain-hold switch; the channels of the notes that are not
\* active are repainted with the background.
set_color_preset(led, note_color, background_color, sustain_pedal_hold) ==
    LET led1 == [ led EXCEPT !.note_color = note_color,
                             !.background_color = background_color,
                             !.sustain_pedal_hold = sustain_pedal_hold ]
        note_range == IF led.double_led_mode
                      THEN double_led_start_note .. double_led_end_note
                      ELSE PIANO_LOWEST_NOTE .. PIANO_HIGHEST_NOTE
        channels ==
            UNION { midi_note_to_led(led, n) :
                      n \in note_range \ led.active_notes }
    IN  IF led.enabled /\ led.strip
        THEN [ led1 EXCEPT
                 !.pixels = SetPixels(@, channels, Background(led1)) ]
        ELSE led1

\* set_double_led_mode, lines 302-342: every channel is put off, the
\* channels of the new note range get the background, the status LEDs are
\* redrawn.
set_double_led_mode(led, enabled) ==
    LET led1 == [ led EXCEPT !.double_led_mode = enabled ]
        note_range == IF enabled
                      THEN double_led_start_note .. double_led_end_note
                      ELSE PIANO_LOWEST_NOTE .. PIANO_HIGHEST_NOTE
        channels == UNION { midi_note_to_led(led1, n) : n \in note_range }
    IN  IF led.enabled /\ led.strip
        THEN update_status_leds(
                 [ led1 EXCEPT
                     !.pixels = SetPixels(EmptyMap, channels,
                                          Background(led1)) ])
        ELSE led1

\* set_effect_settings(velocity_brightness = ...), lines 805-807.
set_velocity_brightness(led, velocity_brightness) ==
    [ led EXCEPT !.velocity_brightness = velocity_brightness ]

\* set_effect_settings(effect_mode, fade_duration_ms), lines 779-825, with
\* start_animation (620-628) and stop_animation (630-636).
set_effect_settings(led, effect_mode, duration) ==
    [ led EXCEPT
        !.effect_mode = effect_mode,
        !.animation_running =
            effect_mode \in { "fade", "sparkle", "ripple" },
        !.fade_duration_ms =
            IF duration < 100 THEN 100
            ELSE IF duration > 10000 THEN 10000 ELSE duration ]

\* One note of the loop of _update_fade_effect, lines 669-734 (the removal
\* of lines 737-739 is made here: every note is visited once).
FadeNote(led, midi_note, t) ==
    LET state == led.note_states[midi_note]
        channels == midi_note_to_led(led, midi_note)
        elapsed_ms == (t - state.released_time) * 1000
        progress == IF elapsed_ms < led.fade_duration_ms THEN elapsed_ms
                    ELSE led.fade_duration_ms
        complete == progress = led.fade_duration_ms
        target_brightness ==
            IF led.sustain_pedal_hold /\ led.sustain_pedal_active
            THEN led.sustain_fade_threshold * 127 ELSE 0
        start_brightness == VelocityBrightness(led, state.velocity)
        current_brightness ==
            start_brightness
              - ((start_brightness - target_brightness) * progress)
                    \div led.fade_duration_ms
        paint(b) == IF led.note_color = NoColor THEN led.pixels
                    ELSE SetPixels(led.pixels, channels,
                                   Scale(led.note_color, b))
    IN  IF channels = {}
        THEN [ led EXCEPT !.note_states = Remove(@, midi_note) ]
        ELSE IF state.released_time = 0 THEN led
        ELSE IF current_brightness * 100 <= FullBrightness
                \/ (complete /\ target_brightness = 0)
        THEN [ led EXCEPT
                 !.pixels = SetPixels(@, channels, Background(led)),
                 !.note_states = Remove(@, midi_note) ]
        ELSE IF complete /\ target_brightness > 0
        THEN [ led EXCEPT !.pixels = paint(target_brightness) ]
        ELSE [ led EXCEPT !.pixels = paint(current_brightness) ]

\* _update_fade_effect, lines 662-743, over the tracked notes.
RECURSIVE update_fade_effect(_, _, _)
update_fade_effect(led, notes, t) ==
    IF notes = {} THEN led
    ELSE LET n == CHOOSE x \in notes : \A y \in notes : x <= y
         IN  update_fade_effect(FadeNote(led, n, t), notes \ {n}, t)

\* random.random() of _update_sparkle_effect gives a factor in
\* [1 - sparkle_intensity, 1 + sparkle_intensity), here in hundredths.
SparkleLevels ==
    { 100 - sparkle_intensity, 100, 99 + sparkle_intensity }

\* brightness = max(0.1, min(1.0, base_brightness * sparkle)), line 762.
SparkleBrightness(led, midi_note, level) ==
    LET base_brightness ==
            IF midi_note \in DOMAIN led.note_states
            THEN VelocityBrightness(led, led.note_states[midi_note].velocity)
            ELSE FullBrightness
        b == (base_brightness * level) \div 100
    IN  IF b > FullBrightness THEN FullBrightness
        ELSE IF b * 10 < FullBrightness THEN FullBrightness \div 10
        ELSE b

\* _update_sparkle_effect, lines 745-777, over the active notes; sparkle
\* gives the random factor drawn for each of them.
RECURSIVE update_sparkle_effect(_, _, _)
update_sparkle_effect(led, notes, sparkle) ==
    IF notes = {} THEN led
    ELSE LET n == CHOOSE x \in notes : \A y \in notes : x <= y
             channels == midi_note_to_led(led, n)
             painted ==
                 IF channels = {} \/ led.note_color = NoColor THEN led
                 ELSE [ led EXCEPT
                          !.pixels =
                              SetPixels(@, channels,
                                  Scale(led.note_color,
                                        SparkleBrightness(led, n,
                                                          sparkle[n]))) ]
         IN  update_sparkle_effect(painted, notes \ {n}, sparkle)

\* One frame of _animation_loop, lines 641-646, with _update_effects
\* (654-660): the fade, the sparkle, nothing for any other mode.
animation_frame(led, t, sparkle) ==
    IF ~(led.enabled /\ led.strip) THEN led
    ELSE IF led.effect_mode = "fade"
    THEN update_fade_effect(led, DOMAIN led.note_states, t)
    ELSE IF led.effect_mode = "sparkle"
    THEN update_sparkle_effect(led, led.active_notes, sparkle)
    ELSE led

\* What a frame does to the lock and to the hardware, in order: the lock
\* taken, one <<"set", channel>> for each _set_pixel, <<"show">> for _show,
\* the lock given back.

\* The channels of a set as <<"set", channel>> events.
RECURSIVE SetEvents(_)
SetEvents(channels) ==
    IF channels = {} THEN << >>
    ELSE LET c == CHOOSE x \in channels : \A y \in channels : x >= y
         IN  << <<"set", c>> >> \o SetEvents(channels \ {c})

\* The fade has reached the background for a released note (the test of
\* line 696).
FadeToBackground(led, midi_note, t) ==
    LET state == led.note_states[midi_note]
        elapsed_ms == (t - state.released_time) * 1000
        progress == IF elapsed_ms < led.fade_duration_ms THEN elapsed_ms
                    ELSE led.fade_duration_ms
        target_brightness ==
            IF led.sustain_pedal_hold /\ led.sustain_pedal_active
            THEN led.sustain_fade_threshold * 127 ELSE 0
        start_brightness == VelocityBrightness(led, state.velocity)
        current_brightness ==
            start_brightness
              - ((start_brightness - target_brightness) * progress)
                    \div led.fade_duration_ms
    IN  \/ current_brightness * 100 <= FullBrightness
        \/ (progress = led.fade_duration_ms /\ target_brightness = 0)

\* The notes for which the loop of _update_fade_effect sets needs_update:
\* mapped and released (lines 670-677).
FadeVisited(led) ==
    { n \in DOMAIN led.note_states :
        /\ midi_note_to_led(led, n) # {}
        /\ led.note_states[n].released_time # 0 }

\* The _set_pixel calls of the loop of _update_fade_effect, lines 696-734.
RECURSIVE FadeEvents(_, _, _)
FadeEvents(led, notes, t) ==
    IF notes = {} THEN << >>
    ELSE LET n == CHOOSE x \in notes : \A y \in notes : x <= y
             writes ==
                 IF FadeToBackground(led, n, t) \/ led.note_color # NoColor
                 THEN SetEvents(midi_note_to_led(led, n))
                 ELSE << >>
         IN  writes \o FadeEvents(led, notes \ {n}, t)

\* The notes for which the loop of _update_sparkle_effect sets
\* needs_update: active and mapped (lines 751-754).
SparkleVisited(led) ==
    { n \in led.active_notes : midi_note_to_led(led, n) # {} }

\* The _set_pixel calls of the loop of _update_sparkle_effect, lines
\* 764-772.
RECURSIVE SparkleEvents(_, _)
SparkleEvents(led, notes) ==
    IF notes = {} THEN << >>
    ELSE LET n == CHOOSE x \in notes : \A y \in notes : x <= y
             writes == IF led.note_color # NoColor
                       THEN SetEvents(midi_note_to_led(led, n))
                       ELSE << >>
         IN  writes \o SparkleEvents(led, notes \ {n})

\* A show after every single write.
RECURSIVE ShowAfterEach(_)
ShowAfterEach(events) ==
    IF events = << >> THEN << >>
    ELSE << Head(events), <<"show">> >> \o ShowAfterEach(Tail(events))

\* A frame that flushes the hardware after each channel write.
frame_events_flushing_each(led, t) ==
    IF ~(led.enabled /\ led.strip) THEN << >>
    ELSE IF led.effect_mode = "fade"
    THEN << <<"acquire">> >>
           \o ShowAfterEach(FadeEvents(led, FadeVisited(led), t))
           \o << <<"release">> >>
    ELSE IF led.effect_mode = "sparkle"
    THEN << <<"acquire">> >>
           \o ShowAfterEach(SparkleEvents(led, SparkleVisited(led)))
           \o << <<"release">> >>
    ELSE << >>

\* One frame of _animation_loop (lines 641-646) as events: _update_effects
\* (654-660), then _update_fade_effect (668-743) or _update_sparkle_effect
\* (750-777) with `with self.lock` around the loop and the one
\* `if needs_update: self._show()` after it.
frame_events(led, t) ==
    IF ~(led.enabled /\ led.strip) THEN << >>
    ELSE IF led.effect_mode = "fade"
    THEN << <<"acquire">> >>
           \o FadeEvents(led, FadeVisited(led), t)
           \o (IF FadeVisited(led) # {} THEN << <<"show">> >> ELSE << >>)
           \o << <<"release">> >>
    ELSE IF led.effect_mode = "sparkle"
    THEN << <<"acquire">> >>
           \o SparkleEvents(led, SparkleVisited(led))
           \o (IF SparkleVisited(led) # {} THEN << <<"show">> >> ELSE << >>)
           \o << <<"release">> >>
    ELSE << >>

\* The fields are kept by the specifications that follow threads (SpecRace,
\* SpecAnim); the others run every call to its end in one step.
\* No thread is inside a call, the lock is free (threading.Lock(), line
\* 59), no animation loop runs (self.animation_thread = None).
NoThreads ==
    [ lock |-> "free",          \* "free", or "tick" inside _update_fade_effect
      event |-> <<"idle">>,     \* the driver's thread inside the callback
      tick |-> "idle",          \* the animation loop inside its tick
      notes_to_remove |-> {},   \* local of _update_fade_effect
      loops |-> 0,              \* live threads running _animation_loop
      animation_thread |-> FALSE,   \* self.animation_thread is not None
      callers |-> [ th \in {1, 2} |-> "idle" ] ]
                                \* threads inside start_/stop_animation

\* The record of a call: its name and arguments, and the notes that were
\* active when it was made.
Called(call, led) == [ call |-> call, lit |-> led.active_notes ]

\* The calls process_midi_message makes on the controller: note_on at line
\* 744, note_off at line 822.
LedCall(led, midi_data, t) ==
    IF Len(midi_data) < 3 THEN led
    ELSE IF 144 <= midi_data[1] /\ midi_data[1] <= 159 /\ midi_data[3] > 0
    THEN note_on(led, midi_data[2], midi_data[3], t)
    ELSE IF (128 <= midi_data[1] /\ midi_data[1] <= 143)
            \/ (144 <= midi_data[1] /\ midi_data[1] <= 159)
    THEN note_off(led, midi_data[2], t)
    ELSE led

----------------------------------------------------------------------------
\* Input classification (process_midi_message, the tests at lines 699-707,
\* 782, 846, 904-908, 923-931).
IsNoteOn(midi_data) ==
    /\ Len(midi_data) >= 3
    /\ 144 <= midi_data[1] /\ midi_data[1] <= 159
    /\ midi_data[3] > 0

IsNoteOff(midi_data) ==
    /\ Len(midi_data) >= 3
    /\ ~IsNoteOn(midi_data)
    /\ \/ (128 <= midi_data[1] /\ midi_data[1] <= 143)
       \/ (144 <= midi_data[1] /\ midi_data[1] <= 159 /\ midi_data[3] = 0)

\* status & 0xF0 for a byte
HighNibble(status) == (status \div 16) * 16

IsControlChange(midi_data) ==
    /\ Len(midi_data) >= 3
    /\ ~IsNoteOn(midi_data) /\ ~IsNoteOff(midi_data)
    /\ HighNibble(midi_data[1]) = 176

\* A fresh bucket of the defaultdict, with the session_start key that
\* process_midi_message sets on first use of the hour (lines 694-695).
NewBucket(t) == [ session_start |-> t ] @@ ZeroStats

EnsureBucket(hs, h, t) ==
    IF h \in DOMAIN hs THEN hs ELSE Put(hs, h, NewBucket(t))

\* The effect of one branch of process_midi_message on the aggregation
\* state: the new daily totals, hourly map, NoteStates, sustained set and
\* pedal flag, the operations it puts on db_queue and its is_note_event.
NoEffect(hs) ==
    [ daily |-> daily_stats, hourly |-> hs, active |-> active_notes,
      sustained |-> sustained_notes, pedal |-> pedal_pressed,
      ops |-> <<>>, is_note_event |-> FALSE ]

\* Fault variant of the note-on branch: the hour's bucket is left out, only
\* the daily totals are raised.
NoteOnBranchDailyOnly(midi_data, hs) ==
    LET note == midi_data[2]
        velocity == midi_data[3]
        note_energy == calculate_note_energy(velocity)
    IN  [ daily |-> [ daily_stats EXCEPT
                        !.total_notes = @ + 1,
                        !.total_velocity = @ + velocity,
                        !.total_energy = @ + note_energy ],
          hourly |-> hs,
          active |-> Put(active_notes, note,
                         [ start_time |-> now, velocity |-> velocity,
                           energy |-> note_energy ]),
          sustained |-> IF pedal_pressed THEN sustained_notes \cup {note}
                        ELSE sustained_notes,
          pedal |-> pedal_pressed,
          ops |-> << note_distribution_op(now, note, 1, velocity,
                                          note_energy, 3, 0) >>,
          is_note_event |-> TRUE ]

\* Note on, lines 707-762.
NoteOnBranch(midi_data, hs) ==
    LET note == midi_data[2]
        velocity == midi_data[3]
        h == hour_of(now)
        note_energy == calculate_note_energy(velocity)
    IN  [ daily |-> [ daily_stats EXCEPT
                        !.total_notes = @ + 1,
                        !.total_velocity = @ + velocity,
                        !.total_energy = @ + note_energy ],
          hourly |-> [ hs EXCEPT
                        ![h].total_notes = @ + 1,
                        ![h].total_velocity = @ + velocity,
                        ![h].total_energy = @ + note_energy ],
          active |-> Put(active_notes, note,
                         [ start_time |-> now, velocity |-> velocity,
                           energy |-> note_energy ]),
          sustained |-> IF pedal_pressed THEN sustained_notes \cup {note}
                        ELSE sustained_notes,
          pedal |-> pedal_pressed,
          ops |-> << note_distribution_op(now, note, 1, velocity,
                                          note_energy, 3, 0) >>,
          is_note_event |-> TRUE ]

\* Fault variant of the note-off branch: the duration is added to the
\* totals but the entry put on the queue carries none.
NoteOffBranchNoDuration(midi_data, hs) ==
    LET note == midi_data[2]
        h == hour_of(now)
        sustained1 == IF pedal_pressed THEN sustained_notes \cup {note}
                      ELSE sustained_notes \ {note}
        active1 == IF pedal_pressed THEN active_notes
                   ELSE Remove(active_notes, note)
    IN  IF note \in DOMAIN active1
        THEN LET duration_ms == (now - active1[note].start_time) * 1000
             IN  [ daily |-> [ daily_stats EXCEPT
                                 !.total_duration_ms = @ + duration_ms ],
                   hourly |-> [ hs EXCEPT
                                 ![h].total_duration_ms = @ + duration_ms ],
                   active |-> Remove(active1, note),
                   sustained |-> sustained1,
                   pedal |-> pedal_pressed,
                   ops |-> << note_distribution_op(now, note, 0, 0, 0, 3,
                                                   0) >>,
                   is_note_event |-> TRUE ]
        ELSE [ daily |-> daily_stats, hourly |-> hs, active |-> active1,
               sustained |-> sustained1, pedal |-> pedal_pressed,
               ops |-> <<>>, is_note_event |-> TRUE ]

\* Fault variant of the note-off branch: an entry is put on the queue even
\* when the note has no NoteState.
NoteOffBranchAlwaysEnqueue(midi_data, hs) ==
    LET note == midi_data[2]
        h == hour_of(now)
        sustained1 == IF pedal_pressed THEN sustained_notes \cup {note}
                      ELSE sustained_notes \ {note}
        active1 == IF pedal_pressed THEN active_notes
                   ELSE Remove(active_notes, note)
        duration_ms == IF note \in DOMAIN active1
                       THEN (now - active1[note].start_time) * 1000 ELSE 0
    IN  [ daily |-> [ daily_stats EXCEPT
                        !.total_duration_ms = @ + duration_ms ],
          hourly |-> [ hs EXCEPT ![h].total_duration_ms = @ + duration_ms ],
          active |-> Remove(active1, note),
          sustained |-> sustained1,
          pedal |-> pedal_pressed,
          ops |-> << note_distribution_op(now, note, 0, 0, 0, 3,
                                          duration_ms) >>,
          is_note_event |-> TRUE ]

\* Note off, lines 782-819: the pedal test and removal (790-797) run
\* before the duration block (799-819).
NoteOffBranch(midi_data, hs) ==
    LET note == midi_data[2]
        h == hour_of(now)
        sustained1 == IF pedal_pressed THEN sustained_notes \cup {note}
                      ELSE sustained_notes \ {note}
        active1 == IF pedal_pressed THEN active_notes
                   ELSE Remove(active_notes, note)
    IN  IF note \in DOMAIN active1
        THEN LET duration_ms == (now - active1[note].start_time) * 1000
             IN  [ daily |-> [ daily_stats EXCEPT
                                 !.total_duration_ms = @ + duration_ms ],
                   hourly |-> [ hs EXCEPT
                                 ![h].total_duration_ms = @ + duration_ms ],
                   active |-> Remove(active1, note),
                   sustained |-> sustained1,
                   pedal |-> pedal_pressed,
                   ops |-> << note_distribution_op(now, note, 0, 0, 0, 3,
                                                   duration_ms) >>,
                   is_note_event |-> TRUE ]
        ELSE [ daily |-> daily_stats, hourly |-> hs, active |-> active1,
               sustained |-> sustained1, pedal |-> pedal_pressed,
               ops |-> <<>>, is_note_event |-> TRUE ]

\* Fault variant of the control-change branch: every sustain message with a
\* value >= 64 counts as a press, whatever the pedal flag.
ControlChangeBranchLevel(midi_data, hs) ==
    LET cc_number == midi_data[2]
        cc_value == midi_data[3]
        h == hour_of(now)
    IN  IF cc_number = 64 /\ cc_value >= 64
        THEN [ daily |-> [ daily_stats EXCEPT !.pedal_presses = @ + 1 ],
               hourly |-> [ hs EXCEPT ![h].pedal_presses = @ + 1 ],
               active |-> active_notes,
               sustained |-> sustained_notes,
               pedal |-> TRUE,
               ops |-> << note_distribution_op(now, -1, 1, 0, 0, 3, 0) >>,
               is_note_event |-> FALSE ]
        ELSE IF cc_number = 64 /\ cc_value < 64 /\ pedal_pressed
        THEN [ daily |-> daily_stats, hourly |-> hs,
               active |-> active_notes,
               sustained |-> { n \in sustained_notes :
                                 n \in DOMAIN active_notes },
               pedal |-> FALSE,
               ops |-> <<>>, is_note_event |-> FALSE ]
        ELSE NoEffect(hs)

\* Fault variant of the control-change branch: the release clears the pedal
\* flag and leaves the sustained set as it is.
ControlChangeBranchKeep(midi_data, hs) ==
    LET cc_number == midi_data[2]
        cc_value == midi_data[3]
        h == hour_of(now)
    IN  IF cc_number = 64 /\ cc_value >= 64 /\ ~pedal_pressed
        THEN [ daily |-> [ daily_stats EXCEPT !.pedal_presses = @ + 1 ],
               hourly |-> [ hs EXCEPT ![h].pedal_presses = @ + 1 ],
               active |-> active_notes,
               sustained |-> sustained_notes,
               pedal |-> TRUE,
               ops |-> << note_distribution_op(now, -1, 1, 0, 0, 3, 0) >>,
               is_note_event |-> FALSE ]
        ELSE IF cc_number = 64 /\ cc_value < 64 /\ pedal_pressed
        THEN [ NoEffect(hs) EXCEPT !.pedal = FALSE ]
        ELSE NoEffect(hs)

\* Control change, lines 846-896.
ControlChangeBranch(midi_data, hs) ==
    LET cc_number == midi_data[2]
        cc_value == midi_data[3]
        h == hour_of(now)
    IN  IF cc_number = 64 /\ cc_value >= 64 /\ ~pedal_pressed
        THEN [ daily |-> [ daily_stats EXCEPT !.pedal_presses = @ + 1 ],
               hourly |-> [ hs EXCEPT ![h].pedal_presses = @ + 1 ],
               active |-> active_notes,
               sustained |-> sustained_notes,
               pedal |-> TRUE,
               ops |-> << note_distribution_op(now, -1, 1, 0, 0, 3, 0) >>,
               is_note_event |-> FALSE ]
        ELSE IF cc_number = 64 /\ cc_value < 64 /\ pedal_pressed
        THEN [ daily |-> daily_stats, hourly |-> hs,
               active |-> active_notes,
               sustained |-> { n \in sustained_notes :
                                 n \in DOMAIN active_notes },
               pedal |-> FALSE,
               ops |-> <<>>, is_note_event |-> FALSE ]
        ELSE NoEffect(hs)

\* Any other message of 3 or more bytes, lines 901-921.
OtherBranch(midi_data, hs) ==
    LET msg_type == HighNibble(midi_data[1]) \div 16
    IN  IF msg_type = 14
        THEN [ NoEffect(hs) EXCEPT
                 !.ops = << note_distribution_op(now, -2, 1, 0, 0,
                                                 Len(midi_data), 0) >> ]
        ELSE NoEffect(hs)

\* Fault variant of the short-message branch: two bytes with a note-on
\* status are counted as a note.
ShortBranchAsNote(midi_data, hs) ==
    LET h == hour_of(now)
    IN  IF Len(midi_data) = 2 /\ 144 <= midi_data[1] /\ midi_data[1] <= 159
        THEN [ NoEffect(hs) EXCEPT
                 !.daily = [ daily_stats EXCEPT !.total_notes = @ + 1 ],
                 !.hourly = [ hs EXCEPT ![h].total_notes = @ + 1 ],
                 !.is_note_event = TRUE ]
        ELSE NoEffect(hs)

\* Two bytes, lines 923-929; one byte, lines 931-932.
ShortBranch(midi_data, hs) ==
    IF Len(midi_data) = 2
    THEN [ NoEffect(hs) EXCEPT
             !.is_note_event = (128 <= midi_data[1] /\ midi_data[1] <= 159) ]
    ELSE NoEffect(hs)

Branch(midi_data, hs) ==
    IF IsNoteOn(midi_data) THEN NoteOnBranch(midi_data, hs)
    ELSE IF IsNoteOff(midi_data) THEN NoteOffBranch(midi_data, hs)
    ELSE IF IsControlChange(midi_data) THEN ControlChangeBranch(midi_data, hs)
    ELSE IF Len(midi_data) >= 3 THEN OtherBranch(midi_data, hs)
    ELSE ShortBranch(midi_data, hs)

\* Byte category counters, lines 934-942.
ByteCounters(stats, is_note_event, byte_count) ==
    IF is_note_event
    THEN [ stats EXCEPT !.note_bytes = @ + byte_count ]
    ELSE [ stats EXCEPT !.other_bytes = @ + byte_count ]

\* Fault variant of the session start: the timer restarts at every event.
ResumeSessionAlways(is_active, timer_start, current_time) == current_time

\* Lines 654-657: the session timer starts at the event that finds the
\* session not active, and is left alone otherwise.
ResumeSession(is_active, timer_start, current_time) ==
    IF ~is_active THEN current_time ELSE timer_start

\* process_midi_message(message, time_stamp) for message = (midi_data, dt),
\* the tuple the driver passes to the callback.
HandleMessage(midi_data) ==
    /\ n_msgs < MaxMsgs
    /\ n_msgs' = n_msgs + 1
    \* session timing, lines 651-659
    /\ last_activity_time' = now
    /\ session_timer_start' =
         ResumeSession(session_is_active, session_timer_start, now)
    /\ session_is_active' = TRUE
    /\ UNCHANGED session_timer_total
    /\ IF midi_data = <<>>
       THEN UNCHANGED <<agg_vars, db_queue, enqueued>>      \* line 670
       ELSE LET h == hour_of(now)
                hs == EnsureBucket(hourly_stats, h, now)
                eff == Branch(midi_data, hs)
                byte_count == Len(midi_data)
            IN  /\ daily_stats' = ByteCounters(eff.daily, eff.is_note_event,
                                               byte_count)
                /\ hourly_stats' =
                     [ eff.hourly EXCEPT
                         ![h] = ByteCounters(@, eff.is_note_event,
                                             byte_count) ]
                /\ active_notes' = eff.active
                /\ sustained_notes' = eff.sustained
                /\ pedal_pressed' = eff.pedal
                /\ db_queue' = db_queue \o eff.ops
                /\ enqueued' = enqueued \o eff.ops
    /\ led_controller' = LedCall(led_controller, midi_data, now)
    /\ quiet' = FALSE
    /\ UNCHANGED <<now, n_adv, db_vars, last_saved_daily_stats,
                   delta_daily_stats, flush_status, attempt_log, flush_pc,
                   flush_session_time, last_save_time>>

\* The callback run in one step.
process_midi_message(midi_data) ==
    /\ HandleMessage(midi_data)
    /\ UNCHANGED led_aux

----------------------------------------------------------------------------
\* Session activity tracker.

\* get_current_session_time, lines 1389-1397.
get_current_session_time ==
    session_timer_total +
      ( IF session_is_active /\ session_timer_start # 0
        THEN now - session_timer_start ELSE 0 )

\* Fault variant of the tick: on a pause the time up to the tick, idle gap
\* included, is folded into the total.
update_session_timer_to_now ==
    /\ flush_pc = "idle"
    /\ IF last_activity_time = 0
       THEN UNCHANGED session_vars
       ELSE IF session_is_active
               /\ now - last_activity_time > session_pause_threshold
       THEN /\ session_timer_total' =
                 session_timer_total +
                   ( IF session_timer_start # 0
                     THEN now - session_timer_start ELSE 0 )
            /\ session_is_active' = FALSE
            /\ session_timer_start' = 0
            /\ UNCHANGED last_activity_time
       ELSE UNCHANGED session_vars
    /\ UNCHANGED <<led_controller, led_aux>>
    /\ UNCHANGED <<now, n_msgs, n_adv, agg_vars, db_vars, flush_vars,
                   db_queue, enqueued>>

\* update_session_timer, lines 1370-1386 (run by update_displays each second).
update_session_timer ==
    /\ flush_pc = "idle"
    /\ IF last_activity_time = 0
       THEN UNCHANGED session_vars
       ELSE IF session_is_active
               /\ now - last_activity_time > session_pause_threshold
       THEN /\ session_timer_total' =
                 session_timer_total +
                   ( IF session_timer_start # 0
                     THEN last_activity_time - session_timer_start ELSE 0 )
            /\ session_is_active' = FALSE
            /\ session_timer_start' = 0
            /\ UNCHANGED last_activity_time
       ELSE UNCHANGED session_vars
    /\ UNCHANGED <<led_controller, led_aux>>
    /\ UNCHANGED <<now, n_msgs, n_adv, agg_vars, db_vars, flush_vars,
                   db_queue, enqueued>>

----------------------------------------------------------------------------
\* The durable store (database_manager.py).

\* daily_stats: INSERT OR IGNORE the date, then column = column + delta
\* (main.py lines 570-603).  avg_velocity and updated_at are not modelled.
UpsertDaily(tbl, date, delta) ==
    LET row == IF date \in DOMAIN tbl THEN tbl[date] ELSE ZeroRow
    IN  Put(tbl, date,
            [ total_notes |-> row.total_notes + delta.total_notes,
              total_duration_ms |->
                  row.total_duration_ms + delta.total_duration_ms,
              total_velocity |-> row.total_velocity + delta.total_velocity,
              total_energy |-> row.total_energy + delta.total_energy,
              pedal_presses |-> row.pedal_presses + delta.pedal_presses,
              note_bytes |-> row.note_bytes + delta.note_bytes,
              other_bytes |-> row.other_bytes + delta.other_bytes,
              total_bytes |->
                  row.total_bytes + delta.note_bytes + delta.other_bytes,
              session_time_seconds |->
                  row.session_time_seconds + delta.session_time_seconds ])

\* update_database_stats, lines 145-193: the hourly row, additive.
update_database_stats(tbl, data) ==
    UpsertDaily(tbl, <<data.date, data.hour>>, data.stats)

\* An upsert that replaces the row by the carried values.
update_note_distribution_overwriting(tbl, data) ==
    Put(tbl, <<data.date, data.midi_note>>,
        [ count |-> data.count,
          total_velocity |-> data.velocity,
          total_energy |-> data.energy,
          note_bytes |-> data.bytes,
          total_duration_ms |-> data.duration ])

\* update_note_distribution, lines 195-220: INSERT OR REPLACE of the old
\* values (COALESCE(SELECT ..., 0)) plus the carried ones.
update_note_distribution(tbl, data) ==
    LET key == <<data.date, data.midi_note>>
        row == IF key \in DOMAIN tbl THEN tbl[key] ELSE ZeroDist
    IN  Put(tbl, key,
            [ count |-> row.count + data.count,
              total_velocity |-> row.total_velocity + data.velocity,
              total_energy |-> row.total_energy + data.energy,
              note_bytes |-> row.note_bytes + data.bytes,
              total_duration_ms |->
                  row.total_duration_ms + data.duration ])

\* The drain loop of process_db_queue, lines 494-510, on each table.
RECURSIVE DrainHourly(_, _)
DrainHourly(tbl, q) ==
    IF q = <<>> THEN tbl
    ELSE DrainHourly(IF Head(q).type = "update_stats"
                     THEN update_database_stats(tbl, Head(q).data)
                     ELSE tbl, Tail(q))

RECURSIVE DrainDistribution(_, _)
DrainDistribution(tbl, q) ==
    IF q = <<>> THEN tbl
    ELSE DrainDistribution(IF Head(q).type = "note_distribution"
                           THEN update_note_distribution(tbl, Head(q).data)
                           ELSE tbl, Tail(q))

----------------------------------------------------------------------------
\* The persistence flush, save_aggregated_data (lines 524-638).

\* Fault variant of the delta: the running totals are written instead of
\* their difference to the snapshot.
DeltaDailyTotals(daily, last, current_session_time) ==
    [ daily EXCEPT
        !.session_time_seconds =
            current_session_time - last.session_time_seconds ]

\* Lines 551-560.
DeltaDaily(daily, last, current_session_time) ==
    [ total_notes |-> daily.total_notes - last.total_notes,
      total_duration_ms |-> daily.total_duration_ms - last.total_duration_ms,
      total_velocity |-> daily.total_velocity - last.total_velocity,
      total_energy |-> daily.total_energy - last.total_energy,
      pedal_presses |-> daily.pedal_presses - last.pedal_presses,
      note_bytes |-> daily.note_bytes - last.note_bytes,
      other_bytes |-> daily.other_bytes - last.other_bytes,
      session_time_seconds |->
          current_session_time - last.session_time_seconds ]

\* Line 563.
ShouldSave(delta) ==
    delta.total_notes > 0 \/ delta.session_time_seconds > 0

\* Result of write attempt number `attempt` (0-based) under an outcome.
AttemptResult(outcome, attempt) ==
    IF attempt < outcome[1] THEN "locked" ELSE outcome[2]

\* The retry loop, lines 565-611.  A failed attempt raises inside the try;
\* the handler `except sqlite3.OperationalError` then looks the name sqlite3
\* up, and with the name unbound that lookup raises NameError, which leaves
\* the loop.  `raised` tells that an exception left the loop, `log` lists
\* the attempts made.
RECURSIVE RetryLoop(_, _, _)
RetryLoop(outcome, attempt, log) ==
    IF attempt >= max_retries
    THEN [ committed |-> FALSE, raised |-> FALSE, log |-> log ]
    ELSE LET res == AttemptResult(outcome, attempt)
             log1 == Append(log, res)
         IN  IF res = "ok"
             THEN [ committed |-> TRUE, raised |-> FALSE, log |-> log1 ]
             ELSE IF ~sqlite3_imported
             THEN [ committed |-> FALSE, raised |-> TRUE, log |-> log1 ]
             ELSE IF res = "locked" /\ attempt < max_retries - 1
             THEN RetryLoop(outcome, attempt + 1, log1)
             ELSE [ committed |-> FALSE, raised |-> TRUE, log |-> log1 ]

\* Fault variant of the daily write: the handler swallows the error, so no
\* exception leaves the loop.
DailyWriteSwallow(outcome) ==
    [ RetryLoop(outcome, 0, <<>>) EXCEPT !.raised = FALSE ]

DailyWrite(outcome) == RetryLoop(outcome, 0, <<>>)

FlushStatus(w) ==
    IF w.raised THEN "failed"
    ELSE IF w.committed THEN "committed" ELSE "exhausted"

\* Fault variant of the snapshot: the totals are not copied, only the
\* session time is recorded.
SnapshotStale(daily, current_session_time) ==
    [ last_saved_daily_stats EXCEPT
        !.session_time_seconds = current_session_time ]

\* Lines 613-615, reached when no exception left the retry loop.
Snapshot(daily, current_session_time) ==
    [ daily EXCEPT !.session_time_seconds = current_session_time ]

\* Line 619: the buckets the hourly loop enqueues.
HourlySelected(stats) == stats.total_notes > 0

\* Lines 620-632 for one bucket: fold the hour's session time, restart it,
\* and enqueue a copy.
HourlyOp(hour_key, stats) ==
    update_stats_op(now, hour_key,
        [ stats EXCEPT
            !.session_time_seconds = @ + (now - stats.session_start),
            !.session_start = now ])

\* The loop of lines 618-632 over the buckets (taken in key order).
RECURSIVE HourlyOps(_, _)
HourlyOps(hs, keys) ==
    IF keys = {} THEN <<>>
    ELSE LET k == CHOOSE x \in keys : \A y \in keys : x <= y
         IN  ( IF HourlySelected(hs[k]) THEN << HourlyOp(k, hs[k]) >>
               ELSE <<>> ) \o HourlyOps(hs, keys \ {k})

\* save_aggregated_data run as one step, with q the queue at the call.
save_aggregated_data(outcome, q) ==
    LET current_session_time == get_current_session_time
        delta == DeltaDaily(daily_stats, last_saved_daily_stats,
                            current_session_time)
        w == DailyWrite(outcome)
        ops == HourlyOps(hourly_stats, DOMAIN hourly_stats)
    IN  /\ delta_daily_stats' = delta
        /\ flush_session_time' = 0
        /\ quiet' = TRUE
        /\ flush_pc' = "idle"
        /\ IF ShouldSave(delta)
           THEN /\ attempt_log' = w.log
                /\ flush_status' = FlushStatus(w)
                /\ db_daily_stats' =
                     IF w.committed
                     THEN UpsertDaily(db_daily_stats, date_str(now), delta)
                     ELSE db_daily_stats
                /\ last_saved_daily_stats' =
                     IF w.raised THEN last_saved_daily_stats
                     ELSE Snapshot(daily_stats, current_session_time)
           ELSE /\ outcome = <<0, "ok">>
                /\ attempt_log' = <<>>
                /\ flush_status' = "skipped"
                /\ UNCHANGED <<db_daily_stats, last_saved_daily_stats>>
        /\ IF ShouldSave(delta) /\ w.raised
           THEN /\ db_queue' = q                             \* line 637
                /\ UNCHANGED <<hourly_stats, enqueued>>
           ELSE /\ db_queue' = q \o ops
                /\ enqueued' = enqueued \o ops
                /\ hourly_stats' = EmptyMap                  \* line 635

\* process_db_queue, lines 491-522 (rescheduled every 50 ms): drain the
\* queue into the store, then flush when the save interval has passed.
process_db_queue(outcome) ==
    /\ flush_pc = "idle"
    /\ db_hourly_stats' = DrainHourly(db_hourly_stats, db_queue)
    /\ db_note_distribution' =
         DrainDistribution(db_note_distribution, db_queue)
    /\ IF now - last_save_time >= save_interval
       THEN /\ save_aggregated_data(outcome, <<>>)
            /\ last_save_time' = now
       ELSE /\ outcome = <<0, "ok">>
            /\ db_queue' = <<>>
            /\ UNCHANGED <<flush_vars, db_daily_stats, hourly_stats,
                           enqueued>>
    /\ UNCHANGED <<led_controller, led_aux>>
    /\ UNCHANGED <<now, n_msgs, n_adv, session_vars, daily_stats,
                   active_notes, sustained_notes, pedal_pressed>>

\* The clock.
AdvanceTime(d) ==
    /\ flush_pc = "idle"
    /\ n_adv < MaxAdvances
    /\ n_adv' = n_adv + 1
    /\ now' = now + d
    /\ UNCHANGED <<led_controller, led_aux>>
    /\ UNCHANGED <<n_msgs, session_vars, agg_vars, db_vars, flush_vars,
                   db_queue, enqueued>>

----------------------------------------------------------------------------
\* State after construction (MidiTrackerGUI.__init__, DatabaseManager
\* .initialize_todays_data), the device connected.
InitMain ==
    /\ now = StartTime
    /\ last_activity_time = 0
    /\ session_timer_start = 0
    /\ session_timer_total = 0
    /\ session_is_active = FALSE
    /\ daily_stats = ZeroStats
    /\ last_saved_daily_stats = ZeroStats
    /\ hourly_stats = EmptyMap
    /\ active_notes = EmptyMap
    /\ sustained_notes = {}
    /\ pedal_pressed = FALSE
    /\ db_queue = <<>>
    /\ last_save_time = StartTime
    /\ db_daily_stats = Put(EmptyMap, date_str(StartTime), ZeroRow)
    /\ db_hourly_stats = EmptyMap
    /\ db_note_distribution = EmptyMap
    /\ delta_daily_stats = ZeroStats
    /\ flush_status = "none"
    /\ attempt_log = <<>>
    /\ flush_pc = "idle"
    /\ flush_session_time = 0
    /\ enqueued = <<>>
    /\ quiet = FALSE
    /\ n_msgs = 0
    /\ n_adv = 0

\* The LED library is absent on a machine without the strip.
Init ==
    /\ InitMain
    /\ led_controller = LEDController(FALSE)
    /\ led_hist = Called(<<"__init__">>, led_controller)
    /\ led_threads = NoThreads

Ingest == \E midi_data \in Msgs : process_midi_message(midi_data)

Tick == update_session_timer

Flush == \E outcome \in WriteOutcomes : process_db_queue(outcome)

Clock == \E d \in Delays : AdvanceTime(d)

Next == Ingest \/ Tick \/ Flush \/ Clock

Spec == Init /\ [][Next]_vars

----------------------------------------------------------------------------
\* The same flush taken statement by statement, so that the driver's
\* callback thread (process_midi_message) can run between its statements:
\* the flush runs on the GUI thread (root.after), the callback on the
\* driver's thread, and the code takes no lock.

\* process_db_queue up to the call of save_aggregated_data (lines 494-518).
FlushBegin ==
    /\ flush_pc = "idle"
    /\ db_hourly_stats' = DrainHourly(db_hourly_stats, db_queue)
    /\ db_note_distribution' =
         DrainDistribution(db_note_distribution, db_queue)
    /\ db_queue' = <<>>
    /\ flush_pc' =
         IF now - last_save_time >= save_interval THEN "delta" ELSE "idle"
    /\ UNCHANGED <<led_controller, led_aux>>
    /\ UNCHANGED <<now, n_msgs, n_adv, session_vars, agg_vars, enqueued,
                   db_daily_stats, last_saved_daily_stats, delta_daily_stats,
                   flush_status, attempt_log, flush_session_time, quiet,
                   last_save_time>>

\* Lines 535-563: read the session time, compute the delta, test it.
FlushDelta ==
    /\ flush_pc = "delta"
    /\ LET current_session_time == get_current_session_time
           delta == DeltaDaily(daily_stats, last_saved_daily_stats,
                               current_session_time)
       IN  /\ flush_session_time' = current_session_time
           /\ delta_daily_stats' = delta
           /\ quiet' = TRUE
           /\ IF ShouldSave(delta)
              THEN /\ flush_pc' = "write"
                   /\ UNCHANGED <<flush_status, attempt_log>>
              ELSE /\ flush_pc' = "hourly"
                   /\ flush_status' = "skipped"
                   /\ attempt_log' = <<>>
    /\ UNCHANGED <<led_controller, led_aux>>
    /\ UNCHANGED <<now, n_msgs, n_adv, session_vars, agg_vars, db_vars,
                   db_queue, enqueued, last_saved_daily_stats,
                   last_save_time>>

\* Lines 565-611: the retry loop writes the delta computed before.
FlushWrite(outcome) ==
    /\ flush_pc = "write"
    /\ LET w == DailyWrite(outcome)
       IN  /\ attempt_log' = w.log
           /\ flush_status' = FlushStatus(w)
           /\ db_daily_stats' =
                IF w.committed
                THEN UpsertDaily(db_daily_stats, date_str(now),
                                 delta_daily_stats)
                ELSE db_daily_stats
           /\ flush_pc' = IF w.raised THEN "return" ELSE "snapshot"
    /\ UNCHANGED <<led_controller, led_aux>>
    /\ UNCHANGED <<now, n_msgs, n_adv, session_vars, agg_vars, db_queue,
                   enqueued, db_hourly_stats, db_note_distribution,
                   last_saved_daily_stats, delta_daily_stats,
                   flush_session_time, quiet, last_save_time>>

\* Lines 613-615: copy the totals as they are now.
FlushSnapshot ==
    /\ flush_pc = "snapshot"
    /\ last_saved_daily_stats' = Snapshot(daily_stats, flush_session_time)
    /\ flush_pc' = "hourly"
    /\ UNCHANGED <<led_controller, led_aux>>
    /\ UNCHANGED <<now, n_msgs, n_adv, session_vars, agg_vars, db_vars,
                   db_queue, enqueued, delta_daily_stats, flush_status,
                   attempt_log, flush_session_time, quiet, last_save_time>>

\* Lines 617-635: enqueue the selected buckets, clear the map.
FlushHourly ==
    /\ flush_pc = "hourly"
    /\ LET ops == HourlyOps(hourly_stats, DOMAIN hourly_stats)
       IN  /\ db_queue' = db_queue \o ops
           /\ enqueued' = enqueued \o ops
    /\ hourly_stats' = EmptyMap
    /\ flush_pc' = "return"
    /\ UNCHANGED <<led_controller, led_aux>>
    /\ UNCHANGED <<now, n_msgs, n_adv, session_vars, daily_stats,
                   active_notes, sustained_notes, pedal_pressed, db_vars,
                   last_saved_daily_stats, delta_daily_stats, flush_status,
                   attempt_log, flush_session_time, quiet, last_save_time>>

\* Back in process_db_queue, line 519.
FlushReturn ==
    /\ flush_pc = "return"
    /\ last_save_time' = now
    /\ flush_session_time' = 0
    /\ flush_pc' = "idle"
    /\ UNCHANGED <<led_controller, led_aux>>
    /\ UNCHANGED <<now, n_msgs, n_adv, session_vars, agg_vars, db_vars,
                   db_queue, enqueued, last_saved_daily_stats,
                   delta_daily_stats, flush_status, attempt_log, quiet>>

FlushStep ==
    \/ FlushBegin
    \/ FlushDelta
    \/ \E outcome \in WriteOutcomes : FlushWrite(outcome)
    \/ FlushSnapshot
    \/ FlushHourly
    \/ FlushReturn

NextConc == Ingest \/ Tick \/ FlushStep \/ Clock

SpecConc == Init /\ [][NextConc]_vars

----------------------------------------------------------------------------
\* Message handling on inputs of every shape.  The callback accepts whatever
\* the driver hands it: messages of 0, 1, 2, 3 and more bytes.

AllMsgs == { <<144, 60, 100>>,      \* note on 60, velocity 100
             <<128, 60, 0>>,        \* note off 60
             <<144, 60, 0>>,        \* note on with velocity 0
             <<176, 64, 64>>,       \* sustain, value 64
             <<176, 64, 63>>,       \* sustain, value 63
             <<144, 60, 100, 0>>,   \* four bytes, note-on status
             <<144, 60>>,           \* two bytes, note-on status
             <<248>>,               \* one byte (timing clock)
             <<224, 0, 64>>,        \* pitch bend
             <<>> }                 \* empty midi_data

\* The clock seen by the callback advances second by second.
MsgDelays == {1}

IngestAny == \E midi_data \in AllMsgs : process_midi_message(midi_data)

ClockMsg == \E d \in MsgDelays : AdvanceTime(d)

NextMsg == IngestAny \/ Tick \/ ClockMsg

SpecMsg == Init /\ [][NextMsg]_vars

----------------------------------------------------------------------------
\* The session timer: events of any kind, the one-second tick of
\* update_displays, and silences around the pause threshold.

SessionMsgs == { <<144, 60, 100>>, <<248>>, <<>> }

SessionDelays == { 1, session_pause_threshold, session_pause_threshold + 1 }

IngestSession ==
    \E midi_data \in SessionMsgs : process_midi_message(midi_data)

ClockSession == \E d \in SessionDelays : AdvanceTime(d)

NextSession == IngestSession \/ Tick \/ ClockSession

SpecSession == Init /\ [][NextSession]_vars

----------------------------------------------------------------------------
\* The LED controller driven through its own interface: the control server
\* enables it and sets presets and effects, note events and pedal calls
\* arrive, the animation thread runs frames.

\* One key of the strip, pressed and released.
LedNotes == { 60 }
LedMsgs == UNION { { <<144, n, 100>>, <<128, n, 0>> } : n \in LedNotes }
LedModes == { "static", "fade" }
LedDurations == { fade_duration_ms, 2 * fade_duration_ms }

InitLed ==
    /\ InitMain
    /\ \E strip \in BOOLEAN : led_controller = LEDController(strip)
    /\ led_hist = Called(<<"__init__">>, led_controller)
    /\ led_threads = NoThreads

LedEnable ==
    /\ led_controller' = enable(led_controller)
    /\ UNCHANGED <<main_vars, led_aux>>

\* note_on and note_off are called by process_midi_message (main.py 744,
\* 822).
LedIngest == \E midi_data \in LedMsgs : process_midi_message(midi_data)

LedPedalOn ==
    /\ led_controller' = sustain_pedal_on(led_controller)
    /\ UNCHANGED <<main_vars, led_aux>>

LedPedalOff ==
    /\ \E held \in SUBSET LedNotes :
          led_controller' = sustain_pedal_off(led_controller, held)
    /\ UNCHANGED <<main_vars, led_aux>>

LedSetPreset ==
    /\ \E hold \in BOOLEAN :
          led_controller' =
              set_color_preset(led_controller, DefaultNoteColor, NoColor,
                               hold)
    /\ UNCHANGED <<main_vars, led_aux>>

LedSetEffect ==
    /\ \E mode \in LedModes, d \in LedDurations :
          led_controller' = set_effect_settings(led_controller, mode, d)
    /\ UNCHANGED <<main_vars, led_aux>>

LedFrame ==
    /\ led_controller.animation_running
    /\ \E sparkle \in [led_controller.active_notes -> SparkleLevels] :
          led_controller' = animation_frame(led_controller, now, sparkle)
    /\ UNCHANGED <<main_vars, led_aux>>

ClockLed == AdvanceTime(1)

NextLed ==
    \/ LedEnable \/ LedIngest \/ LedPedalOn \/ LedPedalOff
    \/ LedSetPreset \/ LedSetEffect \/ LedFrame \/ ClockLed

SpecLed == InitLed /\ [][NextLed]_vars

\* The animation thread runs a frame every 1/30 s while it is started
\* (_animation_loop, lines 638-652).
SpecLedLive == SpecLed /\ WF_vars(LedFrame)

----------------------------------------------------------------------------
\* The controller's interface called directly, every call recorded in
\* led_hist: one key, every effect mode, both mappings, the sustain pedal,
\* the animation frames.

FxNotes == { 60 }
FxVelocities == { 100 }
FxModes == { "static", "fade", "sparkle", "ripple" }

\* A call on the controller: the tracker's own state is not involved.
ApiCall(call, result) ==
    /\ led_controller' = result
    /\ led_hist' = Called(call, led_controller)
    /\ UNCHANGED <<main_vars, led_threads>>

FxEnable == ApiCall(<<"enable">>, enable(led_controller))

FxNoteOn ==
    \E n \in FxNotes, v \in FxVelocities :
        ApiCall(<<"note_on", n, v>>, note_on(led_controller, n, v, now))

FxNoteOff ==
    \E n \in FxNotes :
        ApiCall(<<"note_off", n>>, note_off(led_controller, n, now))

FxPedalOn == ApiCall(<<"sustain_pedal_on">>, sustain_pedal_on(led_controller))

FxPedalOff ==
    \E held \in SUBSET FxNotes :
        ApiCall(<<"sustain_pedal_off", held>>,
                sustain_pedal_off(led_controller, held))

FxSetPreset ==
    \E hold \in BOOLEAN :
        ApiCall(<<"set_color_preset", hold>>,
                set_color_preset(led_controller, DefaultNoteColor, NoColor,
                                 hold))

FxSetEffect ==
    \E mode \in FxModes :
        ApiCall(<<"set_effect_settings", mode>>,
                set_effect_settings(led_controller, mode, fade_duration_ms))

FxSetDouble ==
    \E enabled \in BOOLEAN :
        ApiCall(<<"set_double_led_mode", enabled>>,
                set_double_led_mode(led_controller, enabled))

FxClearAll == ApiCall(<<"clear_all">>, clear_all(led_controller))

FxFrame ==
    /\ led_controller.animation_running
    /\ \E sparkle \in [led_controller.active_notes -> SparkleLevels] :
          ApiCall(<<"frame">>, animation_frame(led_controller, now, sparkle))

ClockFx == AdvanceTime(1)

NextFx ==
    \/ FxEnable \/ FxNoteOn \/ FxNoteOff \/ FxPedalOn \/ FxPedalOff
    \/ FxSetPreset \/ FxSetEffect \/ FxSetDouble \/ FxClearAll
    \/ FxFrame \/ ClockFx

SpecFx == InitLed /\ [][NextFx]_vars

\* The animation thread runs a frame every 1/30 s while it is started: no
\* sequence of calls keeps a frame of the fade from running.
FxFadeFrame == FxFrame /\ led_controller.effect_mode = "fade"

SpecFxLive == SpecFx /\ WF_vars(FxFrame) /\ SF_vars(FxFadeFrame)

----------------------------------------------------------------------------
\* The mapping of notes to channels: keys at the ends of the two note
\* ranges and a key outside both, the Static mode, with and without a
\* background colour and velocity scaling.

\* 21 is mapped in the direct mode only, 100 in both modes, 109 in none.
MapNotes == { 21, 100, 109 }
MapVelocities == { 100 }
MapBackgrounds == { NoColor, <<10, 0, 0>> }

MapEnable == ApiCall(<<"enable">>, enable(led_controller))

MapNoteOn ==
    \E n \in MapNotes, v \in MapVelocities :
        ApiCall(<<"note_on", n, v>>, note_on(led_controller, n, v, now))

MapNoteOff ==
    \E n \in MapNotes :
        ApiCall(<<"note_off", n>>, note_off(led_controller, n, now))

MapSetPreset ==
    \E bg \in MapBackgrounds :
        ApiCall(<<"set_color_preset", bg>>,
                set_color_preset(led_controller, DefaultNoteColor, bg,
                                 FALSE))

MapSetVelocity ==
    \E vb \in BOOLEAN :
        ApiCall(<<"set_velocity_brightness", vb>>,
                set_velocity_brightness(led_controller, vb))

MapSetDouble ==
    \E enabled \in BOOLEAN :
        ApiCall(<<"set_double_led_mode", enabled>>,
                set_double_led_mode(led_controller, enabled))

NextMap ==
    \/ MapEnable \/ MapNoteOn \/ MapNoteOff \/ MapSetPreset
    \/ MapSetVelocity \/ MapSetDouble

SpecMap == InitLed /\ [][NextMap]_vars

-----------------------------------------------------------------------------
\* A note event delivered by one thread while the animation loop runs its
\* fade tick on another. A step is what a thread does between two points
\* where the other can run: the statements of note_on and note_off before
\* their "with self.lock" (lines 202-208, 248-249) take no lock, their
\* locked blocks (217-231, 254-256, 259-279) wait for it; the tick holds it
\* from line 668 to line 743.

RaceNotes == {60}
RaceVelocities == {100}

RaceStep(led, threads) ==
    /\ led_controller' = led
    /\ led_threads' = threads
    /\ UNCHANGED <<main_vars, led_hist>>

RaceEnable ==
    /\ led_threads.event = <<"idle">>
    /\ led_threads.lock = "free"
    /\ RaceStep(enable(led_controller), led_threads)

RaceSetEffect ==
    /\ led_threads.event = <<"idle">>
    /\ led_threads.tick = "idle"
    /\ \E mode \in {"static", "fade"} :
          RaceStep(set_effect_settings(led_controller, mode, fade_duration_ms),
                   led_threads)

\* note_on up to line 208: the early returns, then the write of
\* note_states[midi_note].
RaceNoteOnTrack ==
    /\ led_threads.event = <<"idle">>
    /\ \E n \in RaceNotes, v \in RaceVelocities :
          IF ~led_controller.enabled \/ ~led_controller.strip
             \/ midi_note_to_led(led_controller, n) = {}
          THEN RaceStep(led_controller, led_threads)
          ELSE RaceStep([ led_controller EXCEPT
                            !.note_states =
                                Put(@, n, [ velocity |-> v,
                                            pressed_time |-> now,
                                            released_time |-> 0 ]) ],
                        [ led_threads EXCEPT !.event = <<"note_on", n, v>> ])

\* note_on, lines 217-231: the locked block.
RaceNoteOnLight ==
    /\ led_threads.event[1] = "note_on"
    /\ led_threads.lock = "free"
    /\ LET n == led_threads.event[2]
           v == led_threads.event[3]
       IN  RaceStep([ led_controller EXCEPT
                        !.active_notes = @ \cup {n},
                        !.pixels =
                            IF led_controller.note_color = NoColor THEN @
                            ELSE SetPixels(@,
                                     midi_note_to_led(led_controller, n),
                                     Scale(led_controller.note_color,
                                           VelocityBrightness(led_controller,
                                                              v))) ],
                    [ led_threads EXCEPT !.event = <<"idle">> ])

\* note_off up to line 249: the early returns, then the release mark.
RaceNoteOffMark ==
    /\ led_threads.event = <<"idle">>
    /\ \E n \in RaceNotes :
          IF ~led_controller.enabled \/ ~led_controller.strip
             \/ (led_controller.sustain_pedal_hold
                 /\ led_controller.sustain_pedal_active)
             \/ midi_note_to_led(led_controller, n) = {}
          THEN RaceStep(led_controller, led_threads)
          ELSE RaceStep([ led_controller EXCEPT
                            !.note_states =
                                IF n \in DOMAIN @
                                THEN [ @ EXCEPT ![n].released_time = now ]
                                ELSE @ ],
                        [ led_threads EXCEPT !.event = <<"note_off", n>> ])

\* note_off, lines 252-279: one of its two locked blocks.
RaceNoteOffFinish ==
    /\ led_threads.event[1] = "note_off"
    /\ led_threads.lock = "free"
    /\ LET n == led_threads.event[2]
       IN  RaceStep(IF led_controller.effect_mode = "fade"
                       /\ led_controller.animation_running
                    THEN [ led_controller EXCEPT !.active_notes = @ \ {n} ]
                    ELSE [ led_controller EXCEPT
                             !.active_notes = @ \ {n},
                             !.note_states = Remove(@, n),
                             !.pixels =
                                 SetPixels(@,
                                     midi_note_to_led(led_controller, n),
                                     Background(led_controller)) ],
                    [ led_threads EXCEPT !.event = <<"idle">> ])

\* _update_fade_effect, lines 664-736: the lock is taken and the loop over
\* the tracked notes writes the channels and fills notes_to_remove.
RaceTickLoop ==
    /\ led_controller.animation_running
    /\ led_controller.enabled /\ led_controller.strip
    /\ led_controller.effect_mode = "fade"
    /\ led_threads.tick = "idle"
    /\ led_threads.lock = "free"
    /\ LET after == update_fade_effect(led_controller,
                                       DOMAIN led_controller.note_states, now)
       IN  RaceStep([ led_controller EXCEPT !.pixels = after.pixels ],
                    [ led_threads EXCEPT
                        !.lock = "tick",
                        !.tick = "cleanup",
                        !.notes_to_remove =
                            DOMAIN led_controller.note_states
                              \ DOMAIN after.note_states ])

\* _update_fade_effect, lines 738-743: the notes collected are deleted and
\* the lock is released.
RaceTickCleanup ==
    /\ led_threads.tick = "cleanup"
    /\ RaceStep([ led_controller EXCEPT
                    !.note_states =
                        [ n \in DOMAIN @ \ led_threads.notes_to_remove
                            |-> @[n] ] ],
                [ led_threads EXCEPT
                    !.lock = "free",
                    !.tick = "idle",
                    !.notes_to_remove = {} ])

ClockRace == AdvanceTime(1)

NextRace ==
    \/ RaceEnable \/ RaceSetEffect
    \/ RaceNoteOnTrack \/ RaceNoteOnLight
    \/ RaceNoteOffMark \/ RaceNoteOffFinish
    \/ RaceTickLoop \/ RaceTickCleanup
    \/ ClockRace

SpecRace == InitLed /\ [][NextRace]_vars

-----------------------------------------------------------------------------
\* Starting and stopping the animation loop from two threads (effect-mode
\* changes through set_effect_settings, shutdown through cleanup). No lock
\* is taken on this path: a step is one read or one write of
\* animation_running together with the statements that follow it up to the
\* next read, join or return.

AnimCallers == {1, 2}
AnimModes == {"static", "fade", "sparkle"}

AnimStep(led, threads) ==
    /\ led_controller' = led
    /\ led_threads' = threads
    /\ UNCHANGED <<main_vars, led_hist>>

\* set_effect_settings, lines 793-800, and start_animation, lines 620-623:
\* the mode is stored and animation_running is read.
AnimStartCheck(th) ==
    /\ led_threads.callers[th] = "idle"
    /\ \E mode \in AnimModes \ {"static"} :
          AnimStep([ led_controller EXCEPT !.effect_mode = mode ],
                   IF led_controller.animation_running THEN led_threads
                   ELSE [ led_threads EXCEPT !.callers[th] = "start" ])

\* start_animation, lines 625-628: the flag is set and a thread is started.
AnimStartSpawn(th) ==
    /\ led_threads.callers[th] = "start"
    /\ led_threads.loops < MaxLoops
    /\ AnimStep([ led_controller EXCEPT !.animation_running = TRUE ],
                [ led_threads EXCEPT
                    !.callers[th] = "idle",
                    !.loops = @ + 1,
                    !.animation_thread = TRUE ])

\* set_effect_settings, lines 793-803 for a mode that is not continuous,
\* and stop_animation, lines 630-633: the flag is cleared.
AnimStopRequest(th) ==
    /\ led_threads.callers[th] = "idle"
    /\ AnimStep([ led_controller EXCEPT
                    !.effect_mode = "static",
                    !.animation_running = FALSE ],
                IF led_controller.animation_running
                   /\ led_threads.animation_thread
                THEN [ led_threads EXCEPT !.callers[th] = "join" ]
                ELSE led_threads)

\* cleanup, line 617: stop_animation whatever the flag.
AnimCleanup(th) ==
    /\ led_threads.callers[th] = "idle"
    /\ AnimStep([ led_controller EXCEPT !.animation_running = FALSE ],
                IF led_threads.animation_thread
                THEN [ led_threads EXCEPT !.callers[th] = "join" ]
                ELSE led_threads)

\* stop_animation, lines 634-636: join(timeout=1.0) returns when the loop
\* has ended, or after one second when it has not, which takes a flag set
\* again in the meantime (a loop re-reads the flag every 1/30 s).
AnimJoin(th) ==
    /\ led_threads.callers[th] = "join"
    /\ led_threads.loops = 0 \/ led_controller.animation_running
    /\ AnimStep(led_controller,
                [ led_threads EXCEPT
                    !.callers[th] = "idle",
                    !.animation_thread = FALSE ])

\* _animation_loop, lines 642-652: one iteration with the flag set.
AnimLoopTick ==
    /\ led_threads.loops > 0
    /\ led_controller.animation_running
    /\ AnimStep(animation_frame(led_controller, now,
                                [ n \in led_controller.active_notes |-> 100 ]),
                led_threads)

\* _animation_loop, line 642: the flag is read clear and the loop ends.
AnimLoopExit ==
    /\ led_threads.loops > 0
    /\ ~led_controller.animation_running
    /\ AnimStep(led_controller, [ led_threads EXCEPT !.loops = @ - 1 ])

AnimEnable ==
    /\ \A th \in AnimCallers : led_threads.callers[th] = "idle"
    /\ AnimStep(enable(led_controller), led_threads)

NextAnim ==
    \/ \E th \in AnimCallers :
          \/ AnimStartCheck(th) \/ AnimStartSpawn(th)
          \/ AnimStopRequest(th) \/ AnimCleanup(th) \/ AnimJoin(th)
    \/ AnimLoopTick \/ AnimLoopExit \/ AnimEnable

SpecAnim == InitLed /\ [][NextAnim]_vars

-----------------------------------------------------------------------------
\* The periodic flush with every write succeeding, under the program's
\* timers: process_db_queue flushes when save_interval has passed since
\* the last flush (lines 515-519, rescheduled every 50 ms) and
\* update_session_timer runs every second (line 458). The clock moves from
\* one instant at which a timer has something to do to the next, and only
\* when nothing is due.

SaveMsgs == { <<144, 60, 100>>,    \* note on 60
             <<128, 60, 0>>,      \* note off 60
             <<176, 64, 127>> }   \* sustain pressed

IngestSave == \E midi_data \in SaveMsgs : process_midi_message(midi_data)

FlushSave == process_db_queue(<<0, "ok">>)

\* The instant of the next flush, and of the pause if the session runs.
NextDue ==
    LET flush_due == last_save_time + save_interval
        pause_due == last_activity_time + session_pause_threshold + 1
    IN  IF session_is_active /\ pause_due < flush_due
        THEN pause_due ELSE flush_due

JumpSave ==
    /\ flush_pc = "idle"
    /\ n_adv < MaxJumps
    /\ now < NextDue
    /\ n_adv' = n_adv + 1
    /\ now' = NextDue
    /\ UNCHANGED <<led_controller, led_aux>>
    /\ UNCHANGED <<n_msgs, session_vars, agg_vars, db_vars, flush_vars,
                   db_queue, enqueued>>

NextSave == IngestSave \/ Tick \/ FlushSave \/ JumpSave

SpecSave == Init /\ [][NextSave]_vars

-----------------------------------------------------------------------------
\* The same with the two commands that reset the counters. A command
\* counts as a message against MaxMsgs.

\* clear_counts, lines 1232-1289, the dialog answered yes: the flush of
\* line 1240 (save_aggregated_data, lines 524-638), then the counters, the
\* snapshot and the hourly buckets are reset. The session timer is left as
\* it is. flush_session_time keeps the session time that flush read.
clear_counts(outcome) ==
    LET current_session_time == get_current_session_time
        delta == DeltaDaily(daily_stats, last_saved_daily_stats,
                            current_session_time)
        w == DailyWrite(outcome)
        ops == HourlyOps(hourly_stats, DOMAIN hourly_stats)
    IN  /\ flush_pc = "idle"
        /\ n_msgs < MaxMsgs
        /\ n_msgs' = n_msgs + 1
        /\ delta_daily_stats' = delta
        /\ flush_session_time' = current_session_time
        /\ quiet' = TRUE
        /\ IF ShouldSave(delta)
           THEN /\ attempt_log' = w.log
                /\ flush_status' = FlushStatus(w)
                /\ db_daily_stats' =
                     IF w.committed
                     THEN UpsertDaily(db_daily_stats, date_str(now), delta)
                     ELSE db_daily_stats
           ELSE /\ outcome = <<0, "ok">>
                /\ attempt_log' = <<>>
                /\ flush_status' = "skipped"
                /\ UNCHANGED db_daily_stats
        /\ IF ShouldSave(delta) /\ w.raised
           THEN UNCHANGED <<db_queue, enqueued>>              \* line 637
           ELSE /\ db_queue' = db_queue \o ops
                /\ enqueued' = enqueued \o ops
        /\ active_notes' = EmptyMap                           \* line 1244
        /\ daily_stats' = ZeroStats                           \* 1253-1261
        /\ last_saved_daily_stats' = ZeroStats                \* 1265-1274
        /\ hourly_stats' = EmptyMap                           \* line 1276
        /\ UNCHANGED <<led_controller, led_aux>>
        /\ UNCHANGED <<now, n_adv, session_vars, sustained_notes,
                       pedal_pressed, last_save_time, flush_pc,
                       db_hourly_stats, db_note_distribution>>

\* reset_database (statistics_window.py 1040-1071), the dialog answered
\* yes: every table is emptied, then reset_session_counters (main.py
\* 1447-1472) resets the counters and the hourly buckets and
\* initialize_todays_data inserts today's row. The snapshot is left as it
\* is.
reset_session_counters ==
    /\ flush_pc = "idle"
    /\ n_msgs < MaxMsgs
    /\ n_msgs' = n_msgs + 1
    /\ db_daily_stats' = Put(EmptyMap, date_str(now), ZeroRow)
    /\ db_hourly_stats' = EmptyMap
    /\ db_note_distribution' = EmptyMap
    /\ active_notes' = EmptyMap
    /\ daily_stats' = ZeroStats
    /\ hourly_stats' = EmptyMap
    /\ UNCHANGED <<led_controller, led_aux>>
    /\ UNCHANGED <<now, n_adv, session_vars, sustained_notes,
                   pedal_pressed, flush_vars, db_queue, enqueued>>

ClearSession == clear_counts(<<0, "ok">>)

ResetDatabase == reset_session_counters

CmdDelays == { save_interval, session_pause_threshold + 1 }

ClockCmd == \E d \in CmdDelays : AdvanceTime(d)

NextCmd ==
    \/ IngestSave \/ Tick \/ FlushSave \/ ClockCmd
    \/ ClearSession \/ ResetDatabase

SpecCmd == Init /\ [][NextCmd]_vars

-----------------------------------------------------------------------------
\* The session timing of the callback (driver's thread) against the session
\* tick (GUI thread, update_displays), statement by statement; the code
\* takes no lock.

\* process_midi_message, lines 650-651: the arrival time is stored.
CallbackStamp ==
    /\ led_threads.event = <<"idle">>
    /\ n_msgs < MaxMsgs
    /\ \E midi_data \in SessionMsgs :
          led_threads' = [ led_threads EXCEPT
                             !.event = <<"stamped", midi_data>> ]
    /\ last_activity_time' = now
    /\ UNCHANGED <<led_controller, led_hist>>
    /\ UNCHANGED <<now, n_msgs, n_adv, session_timer_start,
                   session_timer_total, session_is_active, agg_vars,
                   db_vars, flush_vars, db_queue, enqueued>>

\* process_midi_message from line 653 on: the test of session_is_active,
\* the restart of the timer, and the handling of the message. The clock
\* has not moved since the stamp, so last_activity_time is written with
\* the value it has.
CallbackFinish ==
    /\ led_threads.event[1] = "stamped"
    /\ HandleMessage(led_threads.event[2])
    /\ led_threads' = [ led_threads EXCEPT !.event = <<"idle">> ]
    /\ UNCHANGED led_hist

\* update_session_timer, lines 1372-1378: the tests.
TickCheck ==
    /\ flush_pc = "idle"
    /\ flush_pc' =
         IF last_activity_time # 0 /\ session_is_active
            /\ now - last_activity_time > session_pause_threshold
         THEN "fold" ELSE "idle"
    /\ UNCHANGED <<led_controller, led_aux>>
    /\ UNCHANGED <<now, n_msgs, n_adv, session_vars, agg_vars, db_vars,
                   last_saved_daily_stats, delta_daily_stats, flush_status,
                   attempt_log, flush_session_time, quiet, last_save_time,
                   db_queue, enqueued>>

\* update_session_timer, lines 1380-1382: the active time is added.
TickFold ==
    /\ flush_pc = "fold"
    /\ flush_pc' = "pause"
    /\ session_timer_total' =
         session_timer_total +
           ( IF session_timer_start # 0
             THEN last_activity_time - session_timer_start ELSE 0 )
    /\ UNCHANGED <<led_controller, led_aux>>
    /\ UNCHANGED <<now, n_msgs, n_adv, last_activity_time,
                   session_timer_start, session_is_active, agg_vars, db_vars,
                   last_saved_daily_stats, delta_daily_stats, flush_status,
                   attempt_log, flush_session_time, quiet, last_save_time,
                   db_queue, enqueued>>

\* update_session_timer, lines 1384-1385: the session is made idle.
TickPause ==
    /\ flush_pc = "pause"
    /\ flush_pc' = "idle"
    /\ session_is_active' = FALSE
    /\ session_timer_start' = 0
    /\ UNCHANGED <<led_controller, led_aux>>
    /\ UNCHANGED <<now, n_msgs, n_adv, last_activity_time,
                   session_timer_total, agg_vars, db_vars,
                   last_saved_daily_stats, delta_daily_stats, flush_status,
                   attempt_log, flush_session_time, quiet, last_save_time,
                   db_queue, enqueued>>

ClockTick ==
    /\ led_threads.event = <<"idle">>
    /\ \E d \in SessionDelays : AdvanceTime(d)

NextTick ==
    \/ CallbackStamp \/ CallbackFinish
    \/ TickCheck \/ TickFold \/ TickPause
    \/ ClockTick

SpecTick == Init /\ [][NextTick]_vars

----------------------------------------------------------------------------
\* Vocabulary of the properties.

\* The row of the daily table that the flushes of this run write.
DailyRow == db_daily_stats[date_str(now)]

\* The daily counters written by message handling alone.
DailyCounters ==
    { "total_notes", "total_velocity", "pedal_presses", "note_bytes",
      "other_bytes" }

EventCounters == DailyCounters \cup { "total_duration_ms", "total_energy" }

RealNotes == 0 .. 127

\* Sum of one field over the note-distribution entries of a log whose note
\* is in `notes`.
RECURSIVE DistSum(_, _, _)
DistSum(log, field, notes) ==
    IF log = <<>> THEN 0
    ELSE ( IF Head(log).type = "note_distribution"
              /\ Head(log).data.midi_note \in notes
           THEN Head(log).data[field] ELSE 0 )
         + DistSum(Tail(log), field, notes)

\* A step in which save_aggregated_data ran (process_db_queue sets
\* last_save_time to the clock, which is later than the previous save).
FlushRan == last_save_time' # last_save_time

\* The operations a step put on the queue.
NewlyEnqueued == SubSeq(enqueued', Len(enqueued) + 1, Len(enqueued'))

BucketCounter(hs, h, c) == IF h \in DOMAIN hs THEN hs[h][c] ELSE 0

----------------------------------------------------------------------------
\* C1: with handlers run one after another, for each daily counter the sum
\* of the deltas committed to the daily row plus the pending difference
\* daily_stats - last_saved_daily_stats equals daily_stats: nothing is
\* written twice, nothing is dropped.
C1_SequentialAccounting ==
    \A c \in DailyCounters :
        DailyRow[c] + (daily_stats[c] - last_saved_daily_stats[c])
            = daily_stats[c]

\* C1 witness: some notes are committed and further ones are pending.
C1_Witness ==
    /\ DailyRow.total_notes > 0
    /\ daily_stats.total_notes > last_saved_daily_stats.total_notes
    /\ DailyRow.pedal_presses > 0

\* C2: with the callback running between the statements of the flush, no
\* increment of a daily counter is lost: once the flush has returned, every
\* increment is in a committed delta or still pending.
C2_NoLostIncrement ==
    flush_pc = "idle" =>
        \A c \in DailyCounters :
            DailyRow[c] + (daily_stats[c] - last_saved_daily_stats[c])
                = daily_stats[c]

\* C3: the snapshot last_saved_daily_stats changes only in a flush whose
\* daily write committed, and after a failed flush everything that flush
\* tried to write is still pending.
C3_SnapshotOnlyAfterCommit ==
    /\ [][ last_saved_daily_stats' # last_saved_daily_stats
             => (FlushRan /\ flush_status' = "committed") ]_vars
    /\ [][ (FlushRan /\ flush_status' = "failed")
             => /\ last_saved_daily_stats' = last_saved_daily_stats
                /\ db_daily_stats' = db_daily_stats
                /\ \A c \in EventCounters :
                     daily_stats'[c] - last_saved_daily_stats'[c]
                         = delta_daily_stats'[c] ]_vars

\* C3 witness: a flush failed while notes were pending.
C3_Witness ==
    /\ flush_status = "failed"
    /\ delta_daily_stats.total_notes > 0
    /\ daily_stats.total_notes - last_saved_daily_stats.total_notes > 0

\* C4 as stated: a flush that follows another flush with no message in
\* between computes a delta that is zero in every counter, session seconds
\* included.
C4_SecondDeltaAllZero ==
    [][ (FlushRan /\ quiet) => delta_daily_stats' = ZeroStats ]_vars

\* C4 amended: after a flush whose daily write committed, a second flush
\* with no message in between computes a zero delta in notes, duration,
\* velocity, energy, pedal presses, note bytes and other bytes; its
\* session-seconds delta is the session time accrued since the snapshot.
C4_SecondDeltaEventsZero ==
    [][ (FlushRan /\ quiet /\ flush_status = "committed")
          => /\ \A c \in EventCounters : delta_daily_stats'[c] = 0
             /\ delta_daily_stats'.session_time_seconds =
                  get_current_session_time
                    - last_saved_daily_stats.session_time_seconds ]_vars

\* C4 witness: a later flush with no new message committed session time only.
C4_Witness ==
    /\ quiet
    /\ flush_status = "committed"
    /\ DailyRow.total_notes > 0
    /\ \A c \in EventCounters : delta_daily_stats[c] = 0
    /\ delta_daily_stats.session_time_seconds > 0

\* C5: a write attempt that fails with "database is locked" is repeated in
\* the same flush: the flush gives up on a lock error only at the bound of
\* 5 attempts, and never makes more than 5.
C5_RetryOnLocked ==
    /\ Len(attempt_log) <= max_retries
    /\ ( flush_status = "failed"
         /\ attempt_log # <<>>
         /\ attempt_log[Len(attempt_log)] = "locked" )
       => Len(attempt_log) = max_retries

\* C6: a flush that reaches the hourly step enqueues, for every bucket
\* holding a non-zero counter, one upsert with the bucket's counters, and
\* leaves the hourly map empty.
C6_NonEmptyBucketsEnqueued ==
    [][ (FlushRan /\ flush_status' # "failed")
          => /\ hourly_stats' = EmptyMap
             /\ \A h \in DOMAIN hourly_stats :
                  (\E c \in EventCounters : hourly_stats[h][c] # 0)
                    => \E i \in 1 .. Len(NewlyEnqueued) :
                         /\ NewlyEnqueued[i].type = "update_stats"
                         /\ NewlyEnqueued[i].data.hour = h
                         /\ \A c \in EventCounters :
                              NewlyEnqueued[i].data.stats[c]
                                  = hourly_stats[h][c] ]_vars

\* C7: the sums of count, velocity and duration over all enqueued
\* note-distribution entries of real notes equal the daily total_notes,
\* total_velocity and total_duration_ms gained since the start.
C7_DistributionMatchesDaily ==
    /\ DistSum(enqueued, "count", RealNotes) = daily_stats.total_notes
    /\ DistSum(enqueued, "velocity", RealNotes) = daily_stats.total_velocity
    /\ DistSum(enqueued, "duration", RealNotes)
         = daily_stats.total_duration_ms

\* C7 witness: a note counted and released under the pedal, its duration
\* recorded, a pedal entry in the log.
C7_Witness ==
    /\ daily_stats.total_notes >= 1
    /\ daily_stats.total_duration_ms > 0
    /\ DistSum(enqueued, "count", {-1}) > 0

\* C8: the sum of bytes over all enqueued note-distribution entries of real
\* notes equals the daily note_bytes gained since the start.
C8_DistributionBytesMatchDaily ==
    DistSum(enqueued, "bytes", RealNotes) = daily_stats.note_bytes

\* C9: every note off whose note has a NoteState, pedal pressed or not,
\* adds now - start_time to the daily and current-hour duration, enqueues
\* an entry carrying it and removes the NoteState.
C9_NoteOffRecordsDuration ==
    [][ \A m \in Msgs :
          ( IsNoteOff(m) /\ m[2] \in DOMAIN active_notes
            /\ process_midi_message(m) )
          => LET note == m[2]
                 h == hour_of(now)
                 d == (now - active_notes[note].start_time) * 1000
             IN  /\ daily_stats'.total_duration_ms
                      = daily_stats.total_duration_ms + d
                 /\ BucketCounter(hourly_stats', h, "total_duration_ms")
                      = BucketCounter(hourly_stats, h, "total_duration_ms")
                          + d
                 /\ NewlyEnqueued
                      = << note_distribution_op(now, note, 0, 0, 0, 3, d) >>
                 /\ note \notin DOMAIN active_notes' ]_vars

\* C10: every note on adds 1 to total_notes and v to total_velocity, daily
\* and current hour, creates the NoteState and enqueues exactly one entry
\* (count 1, velocity v, bytes 3); a note off adds nothing to the note's
\* count and a duration >= 0, so note on then note off raises the count by
\* exactly 1.
C10_NoteOnCounts ==
    [][ \A m \in Msgs :
          process_midi_message(m)
          => LET note == m[2]
                 v == m[3]
                 h == hour_of(now)
             IN  /\ IsNoteOn(m)
                    => /\ daily_stats'.total_notes
                            = daily_stats.total_notes + 1
                       /\ daily_stats'.total_velocity
                            = daily_stats.total_velocity + v
                       /\ BucketCounter(hourly_stats', h, "total_notes")
                            = BucketCounter(hourly_stats, h, "total_notes")
                                + 1
                       /\ BucketCounter(hourly_stats', h, "total_velocity")
                            = BucketCounter(hourly_stats, h,
                                            "total_velocity") + v
                       /\ note \in DOMAIN active_notes'
                       /\ active_notes'[note].start_time = now
                       /\ active_notes'[note].velocity = v
                       /\ Len(NewlyEnqueued) = 1
                       /\ NewlyEnqueued[1].type = "note_distribution"
                       /\ NewlyEnqueued[1].data.midi_note = note
                       /\ NewlyEnqueued[1].data.count = 1
                       /\ NewlyEnqueued[1].data.velocity = v
                       /\ NewlyEnqueued[1].data.bytes = 3
                       /\ NewlyEnqueued[1].data.duration = 0
                 /\ IsNoteOff(m)
                    => /\ DistSum(enqueued', "count", {note})
                            = DistSum(enqueued, "count", {note})
                       /\ DistSum(enqueued', "duration", {note})
                            >= DistSum(enqueued, "duration", {note}) ]_vars

\* C10 witness: note 60 went on and off, its count is 1.
C10_Witness ==
    /\ n_msgs = 2
    /\ daily_stats.note_bytes = 6
    /\ 60 \notin DOMAIN active_notes
    /\ DistSum(enqueued, "count", {60}) = 1
    /\ DistSum(enqueued, "duration", {60}) >= 0

\* A sustain-pedal message: control change number 64.
SustainMsg(m) == IsControlChange(m) /\ m[2] = 64

\* C11: a sustain message with value >= 64 adds exactly 1 to pedal_presses
\* (daily and current hour) and enqueues exactly one entry under id -1 when
\* the pedal is not pressed, and adds nothing and enqueues nothing when the
\* pedal is already pressed.
C11_PedalRisingEdge ==
    [][ \A m \in AllMsgs :
          ( SustainMsg(m) /\ m[3] >= 64 /\ process_midi_message(m) )
          => LET h == hour_of(now)
                 inc == IF pedal_pressed THEN 0 ELSE 1
             IN  /\ daily_stats'.pedal_presses
                      = daily_stats.pedal_presses + inc
                 /\ BucketCounter(hourly_stats', h, "pedal_presses")
                      = BucketCounter(hourly_stats, h, "pedal_presses") + inc
                 /\ NewlyEnqueued =
                      ( IF pedal_pressed THEN <<>>
                        ELSE << note_distribution_op(now, -1, 1, 0, 0, 3,
                                                     0) >> )
                 /\ pedal_pressed' ]_vars

\* C11 witness: three pressed messages in a row counted one press.
C11_Witness ==
    /\ n_msgs = 3
    /\ pedal_pressed
    /\ daily_stats.other_bytes = 9
    /\ daily_stats.pedal_presses = 1
    /\ Len(enqueued) = 1
    /\ enqueued[1].data.midi_note = -1

\* C12: a note off that arrives while the pedal is pressed puts the note in
\* the sustained set and leaves its NoteState in place.
C12_SustainedNoteKeepsState ==
    [][ \A m \in AllMsgs :
          ( IsNoteOff(m) /\ pedal_pressed /\ m[2] \in DOMAIN active_notes
            /\ process_midi_message(m) )
          => /\ m[2] \in sustained_notes'
             /\ m[2] \in DOMAIN active_notes' ]_vars

\* C13: right after a sustain message with value < 64 handled while the
\* pedal is pressed, the sustained set holds exactly its former members
\* that have a NoteState; every other member is gone.
C13_ReleaseKeepsHeldOnly ==
    [][ \A m \in AllMsgs :
          ( SustainMsg(m) /\ m[3] < 64 /\ pedal_pressed
            /\ process_midi_message(m) )
          => /\ ~pedal_pressed'
             /\ sustained_notes'
                  = { n \in sustained_notes : n \in DOMAIN active_notes }
             /\ sustained_notes' \subseteq DOMAIN active_notes' ]_vars

\* C13 witness: the pedal was released over a held note, which stayed in
\* the sustained set.
C13_Witness ==
    /\ ~pedal_pressed
    /\ daily_stats.pedal_presses = 1
    /\ sustained_notes = {60}
    /\ 60 \in DOMAIN active_notes

\* C14: a note off for a note without NoteState changes no duration total
\* (daily, current hour), creates no NoteState and enqueues nothing.
C14_NoteOffWithoutStateIgnored ==
    [][ \A m \in AllMsgs :
          ( IsNoteOff(m) /\ m[2] \notin DOMAIN active_notes
            /\ process_midi_message(m) )
          => LET h == hour_of(now)
             IN  /\ daily_stats'.total_duration_ms
                      = daily_stats.total_duration_ms
                 /\ BucketCounter(hourly_stats', h, "total_duration_ms")
                      = BucketCounter(hourly_stats, h, "total_duration_ms")
                 /\ active_notes' = active_notes
                 /\ NewlyEnqueued = <<>> ]_vars

\* C14 witness: a single note off for a note never pressed was handled.
C14_Witness ==
    /\ n_msgs = 1
    /\ daily_stats.note_bytes = 3
    /\ daily_stats.total_notes = 0
    /\ active_notes = EmptyMap
    /\ enqueued = <<>>

\* The shapes the classification rules name: exactly 3 bytes, status high
\* nibble 0x9 with a third byte > 0 (note on); exactly 3 bytes, status high
\* nibble 0x8, or 0x9 with a third byte of 0 (note off).
NoteOnShape(m) ==
    Len(m) = 3 /\ HighNibble(m[1]) = 144 /\ m[3] > 0

NoteOffShape(m) ==
    /\ Len(m) = 3
    /\ \/ HighNibble(m[1]) = 128
       \/ (HighNibble(m[1]) = 144 /\ m[3] = 0)

\* The counters a note adds to, on the daily totals or on a bucket.
NoteCounters ==
    { "total_notes", "total_velocity", "total_energy", "total_duration_ms" }

\* C15: a message is handled as note on (it counts a note and creates the
\* NoteState) exactly when it has the note-on shape, and a message that has
\* neither the note-on nor the note-off shape changes no note counter and no
\* NoteState.
C15_ClassificationByShape ==
    [][ \A m \in AllMsgs :
          process_midi_message(m)
          => LET h == hour_of(now)
             IN  /\ ( daily_stats'.total_notes = daily_stats.total_notes + 1 )
                       <=> NoteOnShape(m)
                 /\ IsNoteOn(m) <=> NoteOnShape(m)
                 /\ IsNoteOff(m) <=> NoteOffShape(m)
                 /\ ( ~NoteOnShape(m) /\ ~NoteOffShape(m) )
                    => /\ active_notes' = active_notes
                       /\ \A c \in NoteCounters :
                            /\ daily_stats'[c] = daily_stats[c]
                            /\ BucketCounter(hourly_stats', h, c)
                                 = BucketCounter(hourly_stats, h, c) ]_vars

\* C16: the handler accepts every input (it is never blocked by an error),
\* and a message of 1 or 2 bytes changes no note, velocity, energy, duration
\* or pedal counter, no NoteState, no sustained-set membership and enqueues
\* nothing.
C16_ShortMessagesAreOther ==
    /\ [] ( n_msgs < MaxMsgs
            => \A m \in AllMsgs : ENABLED process_midi_message(m) )
    /\ [][ \A m \in AllMsgs :
             ( Len(m) \in {1, 2} /\ process_midi_message(m) )
             => LET h == hour_of(now)
                IN  /\ \A c \in NoteCounters \cup { "pedal_presses" } :
                         /\ daily_stats'[c] = daily_stats[c]
                         /\ BucketCounter(hourly_stats', h, c)
                              = BucketCounter(hourly_stats, h, c)
                    /\ active_notes' = active_notes
                    /\ sustained_notes' = sustained_notes
                    /\ pedal_pressed' = pedal_pressed
                    /\ NewlyEnqueued = <<>> ]_vars

\* C16 witness: a 1-byte and a 2-byte message were handled and nothing but
\* bytes was counted.
C16_Witness ==
    /\ n_msgs = 2
    /\ daily_stats.note_bytes + daily_stats.other_bytes = 3
    /\ daily_stats.total_notes = 0
    /\ enqueued = <<>>

\* C17: every non-empty message adds its length to exactly one of
\* note_bytes / other_bytes, daily and current hour, and to note_bytes
\* exactly when the message is classified note on or note off.
C17_ByteCounterFollowsClass ==
    [][ \A m \in AllMsgs \ { <<>> } :
          process_midi_message(m)
          => LET h == hour_of(now)
                 is_note == IsNoteOn(m) \/ IsNoteOff(m)
                 nb == IF is_note THEN Len(m) ELSE 0
                 ob == IF is_note THEN 0 ELSE Len(m)
             IN  /\ daily_stats'.note_bytes = daily_stats.note_bytes + nb
                 /\ daily_stats'.other_bytes = daily_stats.other_bytes + ob
                 /\ BucketCounter(hourly_stats', h, "note_bytes")
                      = BucketCounter(hourly_stats, h, "note_bytes") + nb
                 /\ BucketCounter(hourly_stats', h, "other_bytes")
                      = BucketCounter(hourly_stats, h, "other_bytes") + ob
          ]_vars

\* C18: an event received while the session is not active makes it active
\* with the timer started at the arrival time; an event received while it
\* is active leaves the timer start unchanged; either way the time of the
\* last event becomes the arrival time.
C18_EventStartsSession ==
    [][ \A m \in SessionMsgs :
          process_midi_message(m)
          => /\ session_is_active'
             /\ last_activity_time' = now
             /\ session_timer_total' = session_timer_total
             /\ session_timer_start' =
                  ( IF session_is_active THEN session_timer_start
                    ELSE now ) ]_vars

\* C18 witness: after an active stretch and a pause, an event resumed the
\* session at its arrival time.
C18_Witness ==
    /\ session_is_active
    /\ session_timer_total > 0
    /\ session_timer_start = now
    /\ last_activity_time = now

\* C19: a tick that finds the session active and the last event more than
\* the pause threshold ago makes it idle and adds last event - start to the
\* total; from then until the next event the session stays idle and the
\* session time is constant, equal to the total.
C19_PauseExcludesIdleGap ==
    /\ [][ ( update_session_timer /\ session_is_active
             /\ now - last_activity_time > session_pause_threshold )
           => /\ ~session_is_active'
              /\ session_timer_total' =
                   session_timer_total
                     + (last_activity_time - session_timer_start)
              /\ get_current_session_time' = session_timer_total' ]_vars
    /\ [][ ( ~session_is_active /\ last_activity_time # 0
             /\ n_msgs' = n_msgs )
           => /\ ~session_is_active'
              /\ get_current_session_time = session_timer_total
              /\ get_current_session_time' = get_current_session_time
          ]_vars

\* C19 witness: two events one second apart, then silence beyond the
\* threshold and a tick: the session is idle with one second counted.
C19_Witness ==
    /\ ~session_is_active
    /\ session_timer_total = 1
    /\ get_current_session_time = 1
    /\ now - last_activity_time > session_pause_threshold

\* The controller in Fade mode with sustain hold on and the pedal held,
\* note n lit by note_on.
FadeHoldPedal(n) ==
    /\ led_controller.enabled /\ led_controller.strip
    /\ led_controller.effect_mode = "fade"
    /\ led_controller.animation_running
    /\ led_controller.sustain_pedal_hold
    /\ led_controller.sustain_pedal_active
    /\ n \in led_controller.active_notes

\* Note n was released under FadeHoldPedal (the tracker has dropped its
\* NoteState, the controller still counts it active and still tracks it)
\* and fade_duration has passed since.
ReleasedAndFaded(n) ==
    /\ FadeHoldPedal(n)
    /\ n \in DOMAIN led_controller.note_states
    /\ n \notin DOMAIN active_notes
    /\ (now - last_activity_time) * 1000 >= led_controller.fade_duration_ms

\* The channels of note n show the given brightness of the note colour.
ChannelsAt(n, brightness) ==
    \A i \in midi_note_to_led(led_controller, n) :
        Pixel(led_controller, i)
            = Scale(led_controller.note_color, brightness)

\* C20: in Fade mode with sustain hold on and the pedal held, the channel of
\* a note that was pressed and is released is at the full note colour right
\* after the release, and once fade_duration has passed since the release
\* (the pedal still down) the animation frames bring the channel to
\* sustain_fade_threshold times the note colour.
C20_SustainFadeToThreshold ==
    /\ [][\A n \in LedNotes :
            (FadeHoldPedal(n) /\ process_midi_message(<<128, n, 0>>))
            => ChannelsAt(n, FullBrightness)']_vars
    /\ \A n \in LedNotes :
          ReleasedAndFaded(n)
            ~> (\/ ~ReleasedAndFaded(n)
                \/ ChannelsAt(n, led_controller.sustain_fade_threshold * 127))

\* The controller can write channels.
LedOn == led_controller.enabled /\ led_controller.strip

\* Sustain hold is in effect: the switch is on and the pedal is down.
HoldInEffect ==
    led_controller.sustain_pedal_hold /\ led_controller.sustain_pedal_active

\* C21: while the pedal is held and sustain hold is enabled, note_off for a
\* lit note writes no channel, does not mark the note released and leaves
\* it in the active set, whatever the effect mode.
C21_HeldNoteOffNoEffect ==
    [][\A n \in FxNotes :
         (/\ led_hist'.call = <<"note_off", n>>
          /\ LedOn /\ HoldInEffect
          /\ n \in led_controller.active_notes)
         => /\ led_controller'.pixels = led_controller.pixels
            /\ led_controller'.note_states = led_controller.note_states
            /\ led_controller'.active_notes = led_controller.active_notes]_vars

C21_Witness ==
    /\ led_hist.call = <<"note_off", 60>>
    /\ 60 \in led_hist.lit
    /\ LedOn /\ HoldInEffect
    /\ led_controller.effect_mode = "fade"
    /\ 60 \in led_controller.active_notes
    /\ 60 \in DOMAIN led_controller.note_states
    /\ Pixel(led_controller, 104) = DefaultNoteColor

\* The phase of a tracked note in a controller record.
Pressed(led, n) ==
    n \in DOMAIN led.note_states /\ led.note_states[n].released_time = 0
Released(led, n) ==
    n \in DOMAIN led.note_states /\ led.note_states[n].released_time # 0

\* The channels of note n hold the background colour.
ChannelsBackground(led, n) ==
    \A i \in midi_note_to_led(led, n) : Pixel(led, i) = Background(led)

\* C22: on pedal release with sustain hold enabled, every lit note that is
\* not held has its channels at the background or is put into a fade, is
\* out of the active set and has no pressed entry left in note_states; every
\* held note keeps its channels as they were and stays in the active set.
C22_PedalReleaseClearsUnheld ==
    [][\A held \in SUBSET FxNotes :
         (/\ led_hist'.call = <<"sustain_pedal_off", held>>
          /\ LedOn /\ HoldInEffect)
         => \A n \in led_controller.active_notes :
               IF n \in held
               THEN /\ n \in led_controller'.active_notes
                    /\ \A i \in midi_note_to_led(led_controller, n) :
                          Pixel(led_controller', i) = Pixel(led_controller, i)
               ELSE /\ n \notin led_controller'.active_notes
                    /\ ~Pressed(led_controller', n)
                    /\ \/ ChannelsBackground(led_controller', n)
                       \/ Released(led_controller', n)]_vars

\* Note n was released with no sustain hold in effect, its fade time has
\* passed and no sustain hold is in effect now.
ReleasedDue(n) ==
    /\ Released(led_controller, n)
    /\ (now - led_controller.note_states[n].released_time) * 1000
           >= led_controller.fade_duration_ms
    /\ ~HoldInEffect

\* C23: every released note eventually has its tracked state removed and
\* its channels at the background colour, the animation frames running
\* fairly, whatever configuration changes are made while it fades (a note
\* pressed again, or held by the pedal again, starts over).
C23_ReleasedEventuallyRemoved ==
    \A n \in FxNotes :
        ReleasedDue(n)
          ~> \/ /\ n \notin DOMAIN led_controller.note_states
                /\ ChannelsBackground(led_controller, n)
             \/ /\ n \in DOMAIN led_controller.note_states
                /\ ~ReleasedDue(n)

\* C24: in the Static mode (with or without velocity scaling) and with no
\* sustain hold in effect, note_off of a lit mapped note puts its channels
\* at the background colour (off when none is configured) and removes the
\* note from active_notes and note_states within the call.
C24_StaticNoteOffClears ==
    [][\A n \in MapNotes :
         (/\ led_hist'.call = <<"note_off", n>>
          /\ LedOn /\ ~HoldInEffect
          /\ led_controller.effect_mode = "static"
          /\ n \in led_controller.active_notes
          /\ midi_note_to_led(led_controller, n) # {})
         => /\ ChannelsBackground(led_controller', n)
            /\ n \notin led_controller'.active_notes
            /\ n \notin DOMAIN led_controller'.note_states]_vars

C24_Witness ==
    /\ led_hist.call = <<"note_off", 100>>
    /\ 100 \in led_hist.lit
    /\ LedOn /\ ~HoldInEffect
    /\ led_controller.effect_mode = "static"
    /\ led_controller.velocity_brightness
    /\ led_controller.background_color = <<10, 0, 0>>
    /\ ~led_controller.double_led_mode
    /\ Pixel(led_controller, 64) = <<10, 0, 0>>
    /\ 100 \notin led_controller.active_notes
    /\ 21 \in led_controller.active_notes

\* Every MIDI note number.
MidiNotes == 0 .. 127

\* C25: in the direct mapping the channel of a note n of 21..108 is
\* 143 - (n - 21), so 21 has channel 143 and 108 has channel 56, one channel
\* less per note; every other note, 20 and 109 among them, is unmapped.
C25_DirectMapping ==
    ~led_controller.double_led_mode
    => /\ \A n \in MidiNotes :
             midi_note_to_led(led_controller, n)
                 = IF n \in 21 .. 108 THEN { 143 - (n - 21) } ELSE {}
       /\ midi_note_to_led(led_controller, 21) = { 143 }
       /\ midi_note_to_led(led_controller, 108) = { 56 }
       /\ midi_note_to_led(led_controller, 20) = {}
       /\ midi_note_to_led(led_controller, 109) = {}

C25_Witness ==
    /\ ~led_controller.double_led_mode
    /\ LedOn
    /\ led_hist.call = <<"note_on", 21, 100>>
    /\ led_controller.active_notes = { 21, 100 }
    /\ Pixel(led_controller, 143) = DefaultNoteColor
    /\ Pixel(led_controller, 64) = DefaultNoteColor

\* C26: in the paired mapping every note n of 29..100 has exactly the two
\* adjacent channels 143 - 2(n - 29) and 142 - 2(n - 29), both in 0..143;
\* the notes up to 28 and from 101 are unmapped; two distinct notes share no
\* channel.
C26_PairedMapping ==
    led_controller.double_led_mode
    => /\ \A n \in MidiNotes :
             midi_note_to_led(led_controller, n)
                 = IF n \in 29 .. 100
                   THEN { 143 - 2 * (n - 29), 142 - 2 * (n - 29) }
                   ELSE {}
       /\ \A n \in 29 .. 100 :
             /\ Cardinality(midi_note_to_led(led_controller, n)) = 2
             /\ midi_note_to_led(led_controller, n) \subseteq 0 .. 143
       /\ \A m, n \in 29 .. 100 :
             m < n => midi_note_to_led(led_controller, m)
                        \cap midi_note_to_led(led_controller, n) = {}

C26_Witness ==
    /\ led_controller.double_led_mode
    /\ LedOn
    /\ led_hist.call = <<"note_on", 100, 100>>
    /\ 100 \in led_controller.active_notes
    /\ Pixel(led_controller, 1) = DefaultNoteColor
    /\ Pixel(led_controller, 0) = DefaultNoteColor

\* The channels whose colour differs between two controller records.
ChangedChannels(before, after) ==
    { i \in (DOMAIN before.pixels) \cup (DOMAIN after.pixels) :
        Pixel(before, i) # Pixel(after, i) }

\* The channels the mapping mode of a controller assigns to the notes of
\* its valid range.
ValidChannels(led) ==
    UNION { midi_note_to_led(led, n) :
              n \in IF led.double_led_mode
                    THEN double_led_start_note .. double_led_end_note
                    ELSE PIANO_LOWEST_NOTE .. PIANO_HIGHEST_NOTE }

\* C27: every channel that note_on, note_off, sustain_pedal_off or an
\* animation frame writes lies in 0..LED_COUNT-1 and is a channel that the
\* mapping mode of that moment assigns to a note of its valid range.
C27_WritesInsideMapping ==
    [][led_hist'.call[1]
          \in { "note_on", "note_off", "sustain_pedal_off", "frame" }
       => /\ ChangedChannels(led_controller, led_controller')
                \subseteq ValidChannels(led_controller)
          /\ ChangedChannels(led_controller, led_controller')
                \subseteq 0 .. (LED_COUNT - 1)]_vars

\* A frame has written the channels that the paired mapping gives to a note
\* pressed under the direct mapping.
C27_Witness ==
    /\ led_hist.call = <<"frame">>
    /\ LedOn
    /\ led_controller.double_led_mode
    /\ Released(led_controller, 60)
    /\ Pixel(led_controller, 81) = DefaultNoteColor
    /\ Pixel(led_controller, 80) = DefaultNoteColor
    /\ Pixel(led_controller, 104) = Off

\* C28: note_on or note_off for a note that the mapping mode in force does
\* not map writes no channel and leaves active_notes and note_states as
\* they are.
C28_UnmappedNoteIsNoOp ==
    [][\A n \in MapNotes :
         (/\ led_hist'.call[1] \in { "note_on", "note_off" }
          /\ led_hist'.call[2] = n
          /\ midi_note_to_led(led_controller, n) = {})
         => /\ led_controller'.pixels = led_controller.pixels
            /\ led_controller'.active_notes = led_controller.active_notes
            /\ led_controller'.note_states = led_controller.note_states]_vars

\* note_off has been called for a note that was pressed under the direct
\* mapping and that the paired mapping, now in force, does not map.
C28_Witness ==
    /\ led_hist.call = <<"note_off", 21>>
    /\ 21 \in led_hist.lit
    /\ LedOn
    /\ led_controller.double_led_mode
    /\ midi_note_to_led(led_controller, 21) = {}
    /\ 21 \in led_controller.active_notes
    /\ Pressed(led_controller, 21)

\* C29: after a call of set_effect_settings that selects a mode, the
\* animation loop runs exactly when the mode is Fade or Sparkle.
C29_AnimationIffContinuous ==
    led_hist.call[1] = "set_effect_settings"
    => (led_controller.animation_running
          <=> led_controller.effect_mode \in { "fade", "sparkle" })

\* The positions of the events of one kind in a frame.
EventsOf(events, kind) ==
    { k \in DOMAIN events : events[k][1] = kind }

\* The writes and the show of a frame happen with the lock held.
UnderLock(events) ==
    events # << >>
    => /\ events[1] = <<"acquire">>
       /\ events[Len(events)] = <<"release">>
       /\ EventsOf(events, "acquire") = { 1 }
       /\ EventsOf(events, "release") = { Len(events) }

\* Every write of a frame comes before every show.
WritesBeforeShow(events) ==
    \A w \in EventsOf(events, "set"), f \in EventsOf(events, "show") :
        w < f

\* A frame of a continuous effect can run.
FrameRuns ==
    /\ LedOn
    /\ led_controller.animation_running
    /\ led_controller.effect_mode \in { "fade", "sparkle" }

\* C30 as stated: each animation frame recomputes the channel colours with
\* the lock held and performs exactly one show, after all the writes of the
\* frame.
C30_ExactlyOneShow ==
    FrameRuns
    => LET events == frame_events(led_controller, now)
       IN  /\ UnderLock(events)
           /\ WritesBeforeShow(events)
           /\ Cardinality(EventsOf(events, "show")) = 1

\* C30, amended: each animation frame recomputes the channel colours with
\* the lock held and performs at most one show, after all the writes of the
\* frame: exactly one when the frame visits a released mapped note (Fade)
\* or an active mapped note (Sparkle), none when it visits no note.
C30_OneShowWhenVisited ==
    FrameRuns
    => LET events == frame_events(led_controller, now)
           visited == IF led_controller.effect_mode = "fade"
                      THEN FadeVisited(led_controller)
                      ELSE SparkleVisited(led_controller)
       IN  /\ UnderLock(events)
           /\ WritesBeforeShow(events)
           /\ Cardinality(EventsOf(events, "show"))
                 = IF visited = {} THEN 0 ELSE 1
           /\ EventsOf(events, "set") # {} => visited # {}

\* A sparkle frame has written the two channels of a lit note in the paired
\* mapping, and the next frame will write them again.
C30_Witness ==
    /\ led_hist.call = <<"frame">>
    /\ FrameRuns
    /\ led_controller.effect_mode = "sparkle"
    /\ led_controller.double_led_mode
    /\ 60 \in led_controller.active_notes
    /\ Pixel(led_controller, 81) = Scale(DefaultNoteColor, 80 * 127)
    /\ Pixel(led_controller, 80) = Scale(DefaultNoteColor, 80 * 127)
    /\ Len(frame_events(led_controller, now)) = 5


\* C31: a note's state is never deleted by the animation tick while the
\* note is pressed: the tick decides under the lock which states to delete,
\* and no note event changes a state between that decision and the
\* deletion.
C31_NoLostNoteState ==
    [][ (led_threads.tick = "cleanup" /\ led_threads'.tick = "idle")
        => \A n \in DOMAIN led_controller.note_states :
               Pressed(led_controller, n)
                   => n \in DOMAIN led_controller'.note_states ]_vars

\* C32: at most one animation loop executes ticks at any time, whatever
\* start and stop requests were made and from whichever threads.
C32_AtMostOneLoop ==
    led_controller.animation_running => led_threads.loops <= 1

\* C33: with no strip the controller never becomes enabled, and enable,
\* note_on, note_off, sustain_pedal_off, clear_all and the animation frame
\* all return leaving active_notes and note_states as they were.
C33_NoStripNoEffect ==
    [][ ~led_controller.strip
        => /\ ~led_controller'.enabled
           /\ led_hist'.call[1]
                  \in {"enable", "note_on", "note_off", "sustain_pedal_off",
                       "clear_all", "frame"}
              => /\ led_controller'.active_notes
                        = led_controller.active_notes
                 /\ led_controller'.note_states
                        = led_controller.note_states ]_vars

\* C33 witness: with no strip and the animation loop running, enable has
\* been refused and a note_on has returned.
C33_Witness ==
    /\ ~led_controller.strip
    /\ led_controller.animation_running
    /\ led_hist.call = <<"note_on", 60, 100>>
    /\ ~led_controller.enabled

\* The note-distribution operations already applied to the store: those
\* put on the queue and no longer on it.
AppliedOps == SubSeq(enqueued, 1, Len(enqueued) - Len(db_queue))

\* The data of the note-distribution upserts of a log for one key.
RECURSIVE UpsertsFor(_, _)
UpsertsFor(log, key) ==
    IF log = <<>> THEN <<>>
    ELSE ( IF Head(log).type = "note_distribution"
              /\ <<Head(log).data.date, Head(log).data.midi_note>> = key
           THEN <<Head(log).data>> ELSE <<>> )
         \o UpsertsFor(Tail(log), key)

RECURSIVE CarriedSum(_, _)
CarriedSum(upserts, field) ==
    IF upserts = <<>> THEN 0
    ELSE Head(upserts)[field] + CarriedSum(Tail(upserts), field)

DistKeys ==
    { <<op.data.date, op.data.midi_note>> :
        op \in { enqueued[i] : i \in { j \in 1 .. Len(enqueued) :
                      enqueued[j].type = "note_distribution" } } }

\* C34: for every (date, note) key the row's count, velocity, bytes and
\* duration are the sums of the values carried by the upserts applied for
\* that key, and applying two upserts of the same key in either order
\* gives the same table.
C34_UpsertsAdditive ==
    /\ \A key \in DistKeys :
          LET ups == UpsertsFor(AppliedOps, key)
          IN  /\ ups # <<>> <=> key \in DOMAIN db_note_distribution
              /\ ups # <<>> =>
                   LET row == db_note_distribution[key]
                   IN  /\ row.count = CarriedSum(ups, "count")
                       /\ row.total_velocity = CarriedSum(ups, "velocity")
                       /\ row.note_bytes = CarriedSum(ups, "bytes")
                       /\ row.total_duration_ms = CarriedSum(ups, "duration")
    /\ \A key \in DistKeys :
          LET ups == UpsertsFor(enqueued, key)
          IN  \A i, j \in 1 .. Len(ups) :
                  update_note_distribution(
                      update_note_distribution(db_note_distribution, ups[i]),
                      ups[j])
                  = update_note_distribution(
                        update_note_distribution(db_note_distribution,
                                                 ups[j]),
                        ups[i])

\* C34 witness: a row that received two upserts carrying different
\* values, one of them a duration.
C34_Witness ==
    \E key \in DistKeys :
        LET ups == UpsertsFor(AppliedOps, key)
        IN  /\ Len(ups) >= 2
            /\ ups[1] # ups[2]
            /\ db_note_distribution[key].total_duration_ms > 0
            /\ db_note_distribution[key].count > 0

MonotonicOnVelocities ==
    \A v1 \in 0 .. 127 : \A v2 \in v1 .. 127 :
        calculate_note_energy(v1) <= calculate_note_energy(v2)

\* C35: the energy function is monotonic, calculate_note_energy(v1) <=
\* calculate_note_energy(v2) for all velocities v1 <= v2 in 0..127, and so
\* is the energy recorded for every sounding note against every velocity.
C35_EnergyMonotonic ==
    /\ MonotonicOnVelocities
    /\ \A n \in DOMAIN active_notes : \A v \in 0 .. 127 :
          /\ v <= active_notes[n].velocity
                => calculate_note_energy(v) <= active_notes[n].energy
          /\ active_notes[n].velocity <= v
                => active_notes[n].energy <= calculate_note_energy(v)

\* C35 witness: two notes sound, the one struck harder with more energy.
C35_Witness ==
    /\ {60, 62} \subseteq DOMAIN active_notes
    /\ active_notes[62].velocity < active_notes[60].velocity
    /\ active_notes[62].energy < active_notes[60].energy

\* C36: while the controller is enabled with the status LEDs switched on,
\* channels 0-4 show the status colour, in either mapping mode and
\* whatever notes were played or backgrounds painted.
C36_StatusChannelsKept ==
    (LedOn /\ led_controller.status_leds_enabled)
        => \A i \in 0 .. 4 : Pixel(led_controller, i) = <<0, 50, 0>>

\* Some increment of a daily counter is not in the snapshot yet.
PendingIncrement ==
    \E c \in EventCounters : daily_stats[c] > last_saved_daily_stats[c]

\* C37: every increment of a daily counter is eventually committed by the
\* periodic flush although no further event arrives: whenever the session
\* is idle (so that time alone changes neither the counters nor the
\* session time) and an increment is pending, the flush finds a delta
\* that it writes.
C37_PendingIsCommitted ==
    (flush_pc = "idle" /\ ~session_is_active /\ PendingIncrement)
        => ShouldSave(DeltaDaily(daily_stats, last_saved_daily_stats,
                                 get_current_session_time))

\* C38: every daily delta committed by a flush is >= 0 in every counter.
C38_CommittedDeltaNonNegative ==
    flush_status = "committed"
        => /\ \A c \in EventCounters : delta_daily_stats[c] >= 0
           /\ delta_daily_stats.session_time_seconds >= 0

\* C39: the first flush that commits after clear_counts writes a
\* session-seconds delta no larger than the session time elapsed since the
\* flush that clear_counts performed.
C39_ClearDoesNotRepersist ==
    [][ (FlushRan /\ flush_session_time > 0 /\ flush_status' = "committed")
          => delta_daily_stats'.session_time_seconds
                 <= get_current_session_time - flush_session_time ]_vars

\* Neither the callback nor the tick is inside a call.
BothReturned == led_threads.event = <<"idle">> /\ flush_pc = "idle"

\* C40: under any interleaving of the callback with the session tick, the
\* session is idle only if no event ever arrived or the last event is more
\* than the pause threshold ago, and the tick adds to the total only a
\* period that ends at an event more than the pause threshold ago, so
\* that no idle gap longer than the threshold is counted.
C40_IdleOnlyAfterSilence ==
    /\ [] ( (BothReturned /\ ~session_is_active)
              => \/ last_activity_time = 0
                 \/ now - last_activity_time > session_pause_threshold )
    /\ [][ session_timer_total' # session_timer_total
             => now - last_activity_time > session_pause_threshold ]_vars

====
